---- MODULE Spec2Model ----
(***************************************************************************)
(* Collage layout core of hadoku-printTool: the five layout algorithms     *)
(* (FFD-row, masonry, guillotine, spiral, treemap), the seeded generator,  *)
(* the geometry utilities and the scale-factor optimizer.                  *)
(*                                                                         *)
(* Numbers.  The TypeScript code computes in IEEE doubles.  Here every     *)
(* length, area and scale is an exact rational <<n, d>> (d > 0, lowest     *)
(* terms), so rounding error of the doubles is not modelled.  The 32-bit   *)
(* generator state is a pair <<hi, lo>> of 16-bit limbs and is computed    *)
(* bit for bit.                                                            *)
(***************************************************************************)
EXTENDS Integers, Sequences, FiniteSets, TLC

(***************************************************************************)
(* Bounds of the model                                                     *)
(***************************************************************************)
MaxImages == 3
MaxRuns == 2
\* the length of the lists the treemap splits with a random shift
ManyImages == 4
\* the page and the list length of the runs of the passes on their own
PassPage == 7
PassImages == 2

\* the values the inputs are drawn from
Dims == 1..3
PageDims == {2, 4}
Gaps == {0, 1}
MinSizes == {1, 2}
\* seed 0 leaves a sorted list of two or three images in place, seed 4 swaps its
\* first two images and seed 5 its last two, under every bias factor used
Seeds == {0, 4, 5}
\* the smaller domain of the runs of the optimizer and of repeated runs
SmallDims == 1..2
PoolSeeds == {4}
DownscalePercents == {0, 50, 90}

\* null, as a record so that it compares with records
NULL == [null |-> TRUE]

(***************************************************************************)
(* Exact rational arithmetic                                               *)
(*                                                                         *)
(* A value that an operator needs more than once is computed by the caller *)
(* and handed down as an argument, so every operator reads its operands    *)
(* once.                                                                   *)
(***************************************************************************)
Abs(n) == IF n < 0 THEN -n ELSE n

RECURSIVE GCD(_, _)
GCD(a, b) == IF b = 0 THEN a ELSE GCD(b, a % b)

Reduce(n, d, g) == <<n \div g, d \div g>>
\* n / d in lowest terms, d > 0
Norm(n, d) == Reduce(n, d, GCD(Abs(n), d))

R(n) == <<n, 1>>
Frac(n, d) == Norm(n, d)
Zero == <<0, 1>>
One == <<1, 1>>
Half == <<1, 2>>

LCM(a, b) == (a \div GCD(a, b)) * b

AddOver(a, b, l) == Norm(a[1] * (l \div a[2]) + b[1] * (l \div b[2]), l)
RAdd(a, b) == AddOver(a, b, LCM(a[2], b[2]))
RNeg(a) == <<-a[1], a[2]>>
RSub(a, b) == RAdd(a, RNeg(b))
MulBy(a, b, g1, g2) ==
  <<(a[1] \div g1) * (b[1] \div g2), (a[2] \div g2) * (b[2] \div g1)>>
RMul(a, b) ==
  IF a[1] = 0 \/ b[1] = 0 THEN Zero
  ELSE MulBy(a, b, GCD(Abs(a[1]), b[2]), GCD(Abs(b[1]), a[2]))
RInv(a) == IF a[1] < 0 THEN <<-a[2], -a[1]>> ELSE <<a[2], a[1]>>
RDiv(a, b) == RMul(a, RInv(b))
LtOver(a, b, l) == a[1] * (l \div a[2]) < b[1] * (l \div b[2])
RLt(a, b) == LtOver(a, b, LCM(a[2], b[2]))
RLe(a, b) == ~RLt(b, a)
RGt(a, b) == RLt(b, a)
RGe(a, b) == ~RLt(a, b)
RMax(a, b) == IF RLt(a, b) THEN b ELSE a
RMin(a, b) == IF RLt(b, a) THEN b ELSE a
RAbs(a) == <<Abs(a[1]), a[2]>>
\* Math.floor: TLA+ \div rounds toward minus infinity, as Math.floor does
RFloor(a) == a[1] \div a[2]
\* Math.round: the nearest integer, halves rounded up
RRound(a) == RFloor(RAdd(a, Half))

(***************************************************************************)
(* SeededRandom (Mulberry32) on 32-bit words <<hi, lo>>                    *)
(***************************************************************************)
W16 == 65536

RECURSIVE XorBits(_, _, _)
XorBits(a, b, n) ==
  IF n = 0 THEN 0
  ELSE ((a + b) % 2) + 2 * XorBits(a \div 2, b \div 2, n - 1)

RECURSIVE OrBits(_, _, _)
OrBits(a, b, n) ==
  IF n = 0 THEN 0
  ELSE (IF a % 2 = 1 \/ b % 2 = 1 THEN 1 ELSE 0) + 2 * OrBits(a \div 2, b \div 2, n - 1)

Xor32(a, b) == <<XorBits(a[1], b[1], 16), XorBits(a[2], b[2], 16)>>
\* t | c for a constant c < 2^16
OrLow(a, c) == <<a[1], OrBits(a[2], c, 16)>>
\* t >>> k for p = 2^k, 0 < k < 16
ShrBy(a, p) == <<a[1] \div p, (a[1] % p) * (W16 \div p) + (a[2] \div p)>>
Shr32(a, k) == ShrBy(a, 2 ^ k)
\* hi * 2^16 + lo modulo 2^32, for lo < 2^31
Carry(hi, lo) == <<(hi + (lo \div W16)) % W16, lo % W16>>
Add32(a, b) == Carry(a[1] + b[1], a[2] + b[2])
\* the full product of two 16-bit numbers as <<high 16 bits, low 16 bits>>,
\* from the products hh, mid and ll of their bytes
MulBytes(hh, mid, ll) == Carry(hh + (mid \div 256), ll + (mid % 256) * 256)
Mul8(a1, a0, b1, b0) == MulBytes(a1 * b1, a1 * b0 + a0 * b1, a0 * b0)
Mul16(a, b) == Mul8(a \div 256, a % 256, b \div 256, b % 256)
\* Math.imul: the low 32 bits of the product
ImulOf(ll, hl, lh) == <<(ll[1] + hl[2] + lh[2]) % W16, ll[2]>>
Imul(a, b) == ImulOf(Mul16(a[2], b[2]), Mul16(a[1], b[2]), Mul16(a[2], b[1]))

\* new SeededRandom(seed): the state is the seed
SeededRandom(seed) == <<(seed \div W16) % W16, seed % W16>>

\* return ((t ^ (t >>> 14)) >>> 0) / 4294967296
Mix3(s1, t2) == [state |-> s1, u |-> Xor32(t2, Shr32(t2, 14))]
\* t ^= t + Math.imul(t ^ (t >>> 7), t | 61)
Mix2(s1, t1) ==
  Mix3(s1, Xor32(t1, Add32(t1, Imul(Xor32(t1, Shr32(t1, 7)), OrLow(t1, 61)))))
\* t = Math.imul(t ^ (t >>> 15), t | 1)
Mix1(s1) == Mix2(s1, Imul(Xor32(s1, Shr32(s1, 15)), OrLow(s1, 1)))
\* SeededRandom.next(): [state |-> the new state, u |-> the 32-bit word whose
\* value divided by 2^32 is the float returned]; the state advances by 0x6d2b79f5
RngNext(state) == Mix1(Add32(state, <<27947, 31221>>))

\* the integer part of u * p[2] / 2^16, and the rest lost in it
UHigh(u, p) == u[1] * p[2] + ((u[2] * p[2]) \div W16)
ULow(u, p) == (u[2] * p[2]) % W16
\* u / 2^32 > p and u / 2^32 < p for a rational p in [0, 1]
UGt(u, p) ==
  \/ UHigh(u, p) > p[1] * W16
  \/ UHigh(u, p) = p[1] * W16 /\ ULow(u, p) > 0
ULt(u, p) == UHigh(u, p) < p[1] * W16
\* Math.floor(u / 2^32 * m) for an integer m >= 0
UScale(u, m) == (u[1] * m + ((u[2] * m) \div W16)) \div W16

(***************************************************************************)
(* ImageDimensions and the shared helpers                                  *)
(*                                                                         *)
(* An image is [id, width, height]; its area and aspectRatio fields are    *)
(* width * height and width / height in every place the code builds one    *)
(* (imagesToDimensions, scaleImages, the treemap pre-scaling), so they are *)
(* computed here instead of stored.                                        *)
(***************************************************************************)
Area(img) == RMul(img.width, img.height)
AspectRatio(img) == RDiv(img.width, img.height)

Min(a, b) == IF a < b THEN a ELSE b
Max(a, b) == IF a < b THEN b ELSE a

Ids(images) == [i \in 1..Len(images) |-> images[i].id]

RECURSIVE filterValidImages(_, _)
\* images.filter(img => img.width >= min && img.height >= min)
filterValidImages(images, minImageSizeInches) ==
  IF images = <<>> THEN <<>>
  ELSE (IF /\ RGe(Head(images).width, minImageSizeInches)
           /\ RGe(Head(images).height, minImageSizeInches)
        THEN <<Head(images)>> ELSE <<>>)
       \o filterValidImages(Tail(images), minImageSizeInches)

RECURSIVE SumAreas(_)
SumAreas(placements) ==
  IF placements = <<>> THEN Zero
  ELSE RAdd(RMul(Head(placements).rect.width, Head(placements).rect.height),
            SumAreas(Tail(placements)))

calculateCoverage(placements, pageWidth, pageHeight) ==
  RDiv(SumAreas(placements), RMul(pageWidth, pageHeight))

createEmptyOutput(images) ==
  [placements |-> <<>>, coverage |-> Zero, unusedImageIds |-> Ids(images)]

\* the return statement the loops of FFD-row, guillotine and masonry end in
OutputOf(r, in) ==
  [placements |-> r.placements,
   coverage |-> calculateCoverage(r.placements, in.pageWidth, in.pageHeight),
   unusedImageIds |-> r.unusedImageIds]

\* a.x + a.width + tolerance <= b.x
LeftOf(a, b, tolerance) == RLe(RAdd(RAdd(a.x, a.width), tolerance), b.x)
\* a.y + a.height + tolerance <= b.y
Above(a, b, tolerance) == RLe(RAdd(RAdd(a.y, a.height), tolerance), b.y)

rectsIntersect(a, b, tolerance) ==
  ~(\/ LeftOf(a, b, tolerance)
    \/ LeftOf(b, a, tolerance)
    \/ Above(a, b, tolerance)
    \/ Above(b, a, tolerance))

(***************************************************************************)
(* biasedShuffleByArea                                                     *)
(***************************************************************************)
RECURSIVE InsertByArea(_, _)
\* img goes behind every element whose area is not smaller (a stable sort)
InsertByArea(sorted, img) ==
  IF sorted = <<>> THEN <<img>>
  ELSE IF RLt(Area(Head(sorted)), Area(img)) THEN <<img>> \o sorted
       ELSE <<Head(sorted)>> \o InsertByArea(Tail(sorted), img)

RECURSIVE SortByAreaDesc(_)
\* [...images].sort((a, b) => b.area - a.area)
SortByAreaDesc(images) ==
  IF images = <<>> THEN <<>>
  ELSE InsertByArea(SortByAreaDesc(SubSeq(images, 1, Len(images) - 1)), images[Len(images)])

\* the assignment of s[j] to s[i] alone
CopyOver(s, i, j) == [s EXCEPT ![i] = s[j]]
Swap(s, i, j) == [s EXCEPT ![i] = s[j], ![j] = s[i]]

\* biasFactor * (1 - i / n)
stayProbability(i, n, biasFactor) == RMul(biasFactor, RSub(One, Frac(i, n)))
\* Math.max(1, Math.floor((n - i) * (1 - biasFactor)))
maxSwapDistance(i, n, biasFactor) ==
  Max(1, RFloor(RMul(R(n - i), RSub(One, biasFactor))))

\* the swap with the target that the draw d2 of rng.nextInt(1, m + 1) picks
ShuffleSwap(result, d2, i, m) ==
  [images |-> Swap(result, i + 1, Min(Len(result) - 1, i + UScale(d2.u, m) + 1) + 1),
   rng |-> d2.state]

\* what the pass does with its first draw d
ShuffleDraw(result, d, i, biasFactor) ==
  IF UGt(d.u, stayProbability(i, Len(result), biasFactor))
  THEN ShuffleSwap(result, RngNext(d.state), i, maxSwapDistance(i, Len(result), biasFactor))
  ELSE [images |-> result, rng |-> d.state]

\* one pass of the loop at 0-based position i: [images, rng]
ShuffleStep(result, state, i, biasFactor) ==
  ShuffleDraw(result, RngNext(state), i, biasFactor)

RECURSIVE ShuffleLoop(_, _, _, _)
RECURSIVE ShuffleFrom(_, _, _)
ShuffleFrom(r, i, biasFactor) == ShuffleLoop(r.images, r.rng, i, biasFactor)
ShuffleLoop(result, state, i, biasFactor) ==
  IF i >= Len(result) THEN [images |-> result, rng |-> state]
  ELSE ShuffleFrom(ShuffleStep(result, state, i, biasFactor), i + 1, biasFactor)

\* [images |-> the shuffled copy, rng |-> the generator state afterwards]
biasedShuffleByArea(images, state, biasFactor) ==
  ShuffleLoop(SortByAreaDesc(images), state, 0, biasFactor)

(***************************************************************************)
(* FFD-row                                                                 *)
(*                                                                         *)
(* currentRow is the Row object the caller holds.  The rows array and the  *)
(* images array of a row are only ever written, so they are left out.      *)
(***************************************************************************)
Placement(id, x, y, w, h, scale) ==
  [imageId |-> id, rect |-> [x |-> x, y |-> y, width |-> w, height |-> h],
   scaleFactor |-> scale, rotated |-> FALSE]

\* [placed |-> the placement, row |-> the row object after the call]
placeInRow(img, row, gap) ==
  [placed |-> Placement(img.id, row.currentX, row.y, img.width, img.height, One),
   row |-> [y |-> row.y,
            height |-> RMax(row.height, img.height),
            currentX |-> RAdd(row.currentX, RAdd(img.width, gap))]]

\* Object.assign(currentRow, newRow) has copied the fields of the new row into
\* the caller's row; placeInRow then advances newRow, a different object, so
\* the caller's row keeps currentX = 0 and height = 0
PlaceInNewRow(img, newRow, pageWidth, gap) ==
  IF RGt(img.width, pageWidth) THEN [placed |-> NULL, row |-> newRow]
  ELSE [placed |-> placeInRow(img, newRow, gap).placed, row |-> newRow]

\* the image does not fit the current row: a new row at newRowY, if it fits the page
OpenRow(img, row, newRowY, pageWidth, pageHeight, gap) ==
  IF RGt(RAdd(newRowY, img.height), pageHeight) THEN [placed |-> NULL, row |-> row]
  ELSE PlaceInNewRow(img, [y |-> newRowY, height |-> Zero, currentX |-> Zero],
                     pageWidth, gap)

\* [placed |-> the placement or NULL, row |-> currentRow after the call]
tryPlaceImage(img, row, pageWidth, pageHeight, gap) ==
  IF RLe(img.width, RSub(pageWidth, row.currentX)) THEN placeInRow(img, row, gap)
  ELSE OpenRow(img, row, RAdd(RAdd(row.y, row.height), gap), pageWidth, pageHeight, gap)

FirstRow == [y |-> Zero, height |-> Zero, currentX |-> Zero]

\* the loop body after the call r of tryPlaceImage, placeImage or
\* placeInShortestColumn: [placements, unusedImageIds]
Record(r, img, acc) ==
  IF r.placed # NULL
  THEN [placements |-> Append(acc.placements, r.placed),
        unusedImageIds |-> acc.unusedImageIds]
  ELSE [placements |-> acc.placements,
        unusedImageIds |-> Append(acc.unusedImageIds, img.id)]

NothingYet == [placements |-> <<>>, unusedImageIds |-> <<>>]

RECURSIVE FfdLoop(_, _, _, _)
RECURSIVE FfdPut(_, _, _, _)
FfdPut(q, r, acc, in) == FfdLoop(Tail(q), r.row, Record(r, Head(q), acc), in)
FfdLoop(q, row, acc, in) ==
  IF q = <<>> THEN acc
  ELSE FfdPut(q, tryPlaceImage(Head(q), row, in.pageWidth, in.pageHeight, in.gapInches),
              acc, in)

\* the bias factor each algorithm passes to biasedShuffleByArea
FfdBias == Frac(7, 10)

ffdRowAlgorithm(in) ==
  OutputOf(FfdLoop(biasedShuffleByArea(filterValidImages(in.images, in.minImageSizeInches),
                                       SeededRandom(in.seed), FfdBias).images,
                   FirstRow, NothingYet, in),
           in)

(***************************************************************************)
(* Guillotine                                                              *)
(***************************************************************************)
GuillotineBias == Frac(3, 4)
\* const minFragment = 0.1 and const tolerance = 0.01, in inches
minFragment == Frac(1, 10)
mergeTolerance == Frac(1, 100)

Rect(x, y, w, h) == [x |-> x, y |-> y, width |-> w, height |-> h]
RemoveAt(s, i) == SubSeq(s, 1, i - 1) \o SubSeq(s, i + 1, Len(s))

\* Best Short Side Fit: the shorter leftover dimension
scoreRectFit(imgWidth, imgHeight, rect) ==
  RMin(RSub(rect.width, imgWidth), RSub(rect.height, imgHeight))

Fits(img, rect) == RLe(img.width, rect.width) /\ RLe(img.height, rect.height)

\* the free rectangles the image fits in
Candidates(img, freeRects) == {i \in 1..Len(freeRects) : Fits(img, freeRects[i])}
FitScore(img, freeRects, i) == scoreRectFit(img.width, img.height, freeRects[i])
\* the order of the stable sort by score
SortsFirst(si, sj, i, j) == RLt(si, sj) \/ (si = sj /\ i <= j)
BestOf(img, freeRects, cand) ==
  IF cand = {} THEN 0
  ELSE CHOOSE i \in cand :
         \A j \in cand :
           SortsFirst(FitScore(img, freeRects, i), FitScore(img, freeRects, j), i, j)
\* the index of candidates[0] after the stable sort by score: the first free
\* rectangle among those of the lowest score; 0 when no rectangle fits
SelectedIndex(img, freeRects) == BestOf(img, freeRects, Candidates(img, freeRects))

RECURSIVE DropTiny(_, _)
\* the first loop of mergeFreeRects
DropTiny(freeRects, minSize) ==
  IF freeRects = <<>> THEN <<>>
  ELSE (IF RLt(Head(freeRects).width, minSize) \/ RLt(Head(freeRects).height, minSize)
        THEN <<>> ELSE <<Head(freeRects)>>) \o DropTiny(Tail(freeRects), minSize)

Near(a, b) == RLt(RAbs(RSub(a, b)), mergeTolerance)
\* same x and width, b directly below a
MergesBelow(a, b) ==
  Near(a.x, b.x) /\ Near(a.width, b.width) /\ Near(RAdd(a.y, a.height), b.y)
\* same y and height, b directly to the right of a
MergesRight(a, b) ==
  Near(a.y, b.y) /\ Near(a.height, b.height) /\ Near(RAdd(a.x, a.width), b.x)

MergePairs(freeRects) ==
  {p \in (1..Len(freeRects)) \X (1..Len(freeRects)) :
     /\ p[1] < p[2]
     /\ \/ MergesBelow(freeRects[p[1]], freeRects[p[2]])
        \/ MergesRight(freeRects[p[1]], freeRects[p[2]])}
\* the first pair i < j in scan order
FirstPair(pairs) ==
  CHOOSE q \in pairs : \A r \in pairs : q[1] < r[1] \/ (q[1] = r[1] /\ q[2] <= r[2])
Merged(a, b) ==
  IF MergesBelow(a, b) THEN [a EXCEPT !.height = RAdd(a.height, b.height)]
  ELSE [a EXCEPT !.width = RAdd(a.width, b.width)]
MergeAt(freeRects, p) ==
  RemoveAt([freeRects EXCEPT ![p[1]] = Merged(freeRects[p[1]], freeRects[p[2]])], p[2])

RECURSIVE MergeLoop(_)
RECURSIVE MergePass(_, _)
MergePass(freeRects, pairs) ==
  IF pairs = {} THEN freeRects ELSE MergeLoop(MergeAt(freeRects, FirstPair(pairs)))
\* the while (merged) loop: the first pair i < j in scan order that merges is
\* merged into freeRects[i], freeRects[j] is spliced out, and the scan restarts
MergeLoop(freeRects) == MergePass(freeRects, MergePairs(freeRects))

mergeFreeRects(freeRects, minSize) == MergeLoop(DropTiny(freeRects, minSize))

RightOf(rect, usedWidth, remainingWidth, h) ==
  Rect(RAdd(rect.x, usedWidth), rect.y, remainingWidth, h)
BottomOf(rect, usedHeight, w, remainingHeight) ==
  Rect(rect.x, RAdd(rect.y, usedHeight), w, remainingHeight)
\* the list after the pushes of splitFreeRect
Pushed(rect, rest, usedWidth, usedHeight, remainingWidth, remainingHeight) ==
  IF RGt(remainingWidth, minFragment) /\ RGt(remainingHeight, minFragment)
  THEN IF RLe(remainingWidth, remainingHeight)
       THEN rest \o <<RightOf(rect, usedWidth, remainingWidth, usedHeight),
                      BottomOf(rect, usedHeight, rect.width, remainingHeight)>>
       ELSE rest \o <<RightOf(rect, usedWidth, remainingWidth, rect.height),
                      BottomOf(rect, usedHeight, usedWidth, remainingHeight)>>
  ELSE IF RGt(remainingWidth, minFragment)
  THEN rest \o <<RightOf(rect, usedWidth, remainingWidth, rect.height)>>
  ELSE IF RGt(remainingHeight, minFragment)
  THEN rest \o <<BottomOf(rect, usedHeight, rect.width, remainingHeight)>>
  ELSE rest

\* the free-rectangle list after the rectangle at idx took usedWidth x usedHeight
splitFreeRect(idx, usedWidth, usedHeight, freeRects) ==
  mergeFreeRects(Pushed(freeRects[idx], RemoveAt(freeRects, idx), usedWidth, usedHeight,
                        RSub(freeRects[idx].width, usedWidth),
                        RSub(freeRects[idx].height, usedHeight)),
                 minFragment)

PlaceAt(img, freeRects, idx, gap) ==
  IF idx = 0 THEN [placed |-> NULL, freeRects |-> freeRects]
  ELSE [placed |-> Placement(img.id, freeRects[idx].x, freeRects[idx].y,
                             img.width, img.height, One),
        freeRects |-> splitFreeRect(idx, RAdd(img.width, gap), RAdd(img.height, gap),
                                    freeRects)]
\* placeImage: [placed |-> the placement or NULL, freeRects |-> the list afterwards]
placeImage(img, freeRects, gap) ==
  PlaceAt(img, freeRects, SelectedIndex(img, freeRects), gap)

RECURSIVE GuillotineLoop(_, _, _, _)
RECURSIVE GuillotinePut(_, _, _, _)
GuillotinePut(q, r, acc, in) ==
  GuillotineLoop(Tail(q), r.freeRects, Record(r, Head(q), acc), in)
GuillotineLoop(q, freeRects, acc, in) ==
  IF q = <<>> THEN acc
  ELSE GuillotinePut(q, placeImage(Head(q), freeRects, in.gapInches), acc, in)

WholePage(in) == <<Rect(Zero, Zero, in.pageWidth, in.pageHeight)>>

GuillotineRun(in, validImages) ==
  IF validImages = <<>> THEN createEmptyOutput(in.images)
  ELSE OutputOf(GuillotineLoop(biasedShuffleByArea(validImages, SeededRandom(in.seed),
                                                   GuillotineBias).images,
                               WholePage(in), NothingYet, in),
                in)
guillotineAlgorithm(in) ==
  GuillotineRun(in, filterValidImages(in.images, in.minImageSizeInches))

(***************************************************************************)
(* Masonry                                                                 *)
(***************************************************************************)
MasonryBias == Frac(3, 5)

RECURSIVE SumWidths(_)
SumWidths(images) ==
  IF images = <<>> THEN Zero ELSE RAdd(Head(images).width, SumWidths(Tail(images)))

\* the column width if the gaps between the columns were not subtracted
ColumnWidthNoGaps(pageWidth, gap, columnCount) == RDiv(pageWidth, R(columnCount))
ColumnWidth(pageWidth, gap, columnCount) ==
  RDiv(RSub(pageWidth, RMul(gap, R(columnCount - 1))), R(columnCount))

\* the count kept when its columns are wide enough, the fallback otherwise
Settle(columnCount, in) ==
  IF RLt(ColumnWidth(in.pageWidth, in.gapInches, columnCount), in.minImageSizeInches)
  THEN Max(1, RFloor(RDiv(in.pageWidth, RAdd(in.minImageSizeInches, in.gapInches))))
  ELSE columnCount
\* the column count the algorithm settles on for a non-empty validImages
ColumnCount(validImages, in) ==
  Settle(Max(2, RRound(RDiv(in.pageWidth,
                            RAdd(RDiv(SumWidths(validImages), R(Len(validImages))),
                                 in.gapInches)))),
         in)

ColumnsOf(columnCount, finalColumnWidth, gap) ==
  [i \in 1..columnCount |->
     [x |-> RMul(R(i - 1), RAdd(finalColumnWidth, gap)),
      width |-> finalColumnWidth,
      currentY |-> Zero]]
ColumnsFor(columnCount, in) ==
  ColumnsOf(columnCount, ColumnWidth(in.pageWidth, in.gapInches, columnCount), in.gapInches)
\* the Column objects; the images array of a column is only written
InitialColumns(validImages, in) == ColumnsFor(ColumnCount(validImages, in), in)

\* the first column no other column is strictly shorter than
ShortestColumn(columns) ==
  CHOOSE i \in 1..Len(columns) :
    /\ \A j \in 1..Len(columns) : RLe(columns[i].currentY, columns[j].currentY)
    /\ \A j \in 1..(i - 1) : RLt(columns[i].currentY, columns[j].currentY)

PlaceScaled(img, columns, k, scale, scaledHeight, pageHeight, gap) ==
  IF RGt(RAdd(columns[k].currentY, scaledHeight), pageHeight)
  THEN [placed |-> NULL, columns |-> columns]
  ELSE [placed |-> Placement(img.id, columns[k].x, columns[k].currentY, columns[k].width,
                             scaledHeight, scale),
        columns |-> [columns EXCEPT
                       ![k].currentY = RAdd(columns[k].currentY, RAdd(scaledHeight, gap))]]
\* the image scaled to the width of column k
PlaceInColumn(img, columns, k, scale, pageHeight, gap) ==
  PlaceScaled(img, columns, k, scale, RMul(img.height, scale), pageHeight, gap)
PlaceIn(img, columns, k, pageHeight, gap) ==
  PlaceInColumn(img, columns, k, RDiv(columns[k].width, img.width), pageHeight, gap)
\* [placed |-> the placement or NULL, columns |-> the columns afterwards]
placeInShortestColumn(img, columns, pageHeight, gap) ==
  PlaceIn(img, columns, ShortestColumn(columns), pageHeight, gap)

RECURSIVE MasonryLoop(_, _, _, _)
RECURSIVE MasonryPut(_, _, _, _)
MasonryPut(q, r, acc, in) == MasonryLoop(Tail(q), r.columns, Record(r, Head(q), acc), in)
MasonryLoop(q, columns, acc, in) ==
  IF q = <<>> THEN acc
  ELSE MasonryPut(q, placeInShortestColumn(Head(q), columns, in.pageHeight, in.gapInches),
                  acc, in)

MasonryRun(in, validImages) ==
  IF validImages = <<>> THEN createEmptyOutput(in.images)
  ELSE OutputOf(MasonryLoop(biasedShuffleByArea(validImages, SeededRandom(in.seed),
                                                MasonryBias).images,
                            InitialColumns(validImages, in), NothingYet, in),
                in)
masonryAlgorithm(in) == MasonryRun(in, filterValidImages(in.images, in.minImageSizeInches))

(***************************************************************************)
(* Treemap                                                                 *)
(***************************************************************************)
TreemapBias == Frac(13, 20)

\* Math.sqrt is exact for the square of a rational and is otherwise rounded down
\* to a multiple of 1 / SqrtDen.  The rect of a placement does not depend on the
\* rounding (the pre-scaling cancels in layoutSingle); its scaleFactor does.
SqrtDen == 100

RECURSIVE ISqrtIn(_, _, _)
RECURSIVE ISqrtStep(_, _, _, _)
ISqrtStep(n, lo, hi, mid) ==
  IF mid * mid <= n THEN ISqrtIn(n, mid, hi) ELSE ISqrtIn(n, lo, mid - 1)
\* the largest k in lo..hi with k * k <= n
ISqrtIn(n, lo, hi) == IF lo >= hi THEN lo ELSE ISqrtStep(n, lo, hi, (lo + hi + 1) \div 2)
ISqrt(n) == ISqrtIn(n, 0, Min(n, 46340))

RSqrtOf(q, a, b) ==
  IF a * a = q[1] /\ b * b = q[2] THEN Frac(a, b)
  ELSE Frac(ISqrt((q[1] * SqrtDen * SqrtDen) \div q[2]), SqrtDen)
RSqrt(q) == RSqrtOf(q, ISqrt(q[1]), ISqrt(q[2]))

RECURSIVE SumImageAreas(_)
SumImageAreas(images) ==
  IF images = <<>> THEN Zero ELSE RAdd(Area(Head(images)), SumImageAreas(Tail(images)))

RECURSIVE SumAspects(_)
SumAspects(images) ==
  IF images = <<>> THEN Zero ELSE RAdd(AspectRatio(Head(images)), SumAspects(Tail(images)))

\* The pre-scaled images are kept as the images and their common factor s: the
\* width of a pre-scaled image is img.width * s, and its area enters squarify only
\* in quotients of sums of areas, where s * s cancels.

LayoutAt(img, rect, scale, finalWidth, finalHeight) ==
  Placement(img.id,
            RAdd(rect.x, RDiv(RSub(rect.width, finalWidth), R(2))),
            RAdd(rect.y, RDiv(RSub(rect.height, finalHeight), R(2))),
            finalWidth, finalHeight, scale)
LayoutScaled(img, s, rect, scale) ==
  LayoutAt(img, rect, scale, RMul(RMul(img.width, s), scale),
           RMul(RMul(img.height, s), scale))
\* scale to fit the rect, keep the aspect ratio, centre
layoutSingle(img, s, rect) ==
  LayoutScaled(img, s, rect, RMin(RDiv(rect.width, RMul(img.width, s)),
                                  RDiv(rect.height, RMul(img.height, s))))

\* Math.abs(Math.log(a) - Math.log(c)) for a > 0 orders as max(a / c, c / a) when
\* c is positive and finite; for c <= 0, or a division by zero, the difference is
\* Infinity or NaN and no comparison with it is true
LogKey(a, c) == RMax(RDiv(a, c), RDiv(c, a))

RECURSIVE BestSplitLoop(_, _, _, _, _, _, _, _)
RECURSIVE TryKey(_, _, _, _, _, _, _, _, _)
RECURSIVE TryGroup(_, _, _, _, _, _, _, _, _, _, _)
RECURSIVE TrySplit(_, _, _, _, _, _, _, _, _)
\* if (diff < bestAspectRatio)
TryKey(images, rect, isWide, totalArea, i, bestSplit, found, bestKey, key) ==
  IF ~found \/ RLt(key, bestKey)
  THEN BestSplitLoop(images, rect, isWide, totalArea, i + 1, i + 1, TRUE, key)
  ELSE BestSplitLoop(images, rect, isWide, totalArea, i + 1, bestSplit, found, bestKey)
TryGroup(images, rect, isWide, totalArea, i, bestSplit, found, bestKey, groupWidth, groupHeight, avgAspect) ==
  IF groupHeight # Zero /\ RGt(RDiv(groupWidth, groupHeight), Zero)
  THEN TryKey(images, rect, isWide, totalArea, i, bestSplit, found, bestKey,
              LogKey(avgAspect, RDiv(groupWidth, groupHeight)))
  ELSE BestSplitLoop(images, rect, isWide, totalArea, i + 1, bestSplit, found, bestKey)
\* the group before the split point takes the share ratio of the rectangle
TrySplit(images, rect, isWide, totalArea, i, bestSplit, found, bestKey, ratio) ==
  TryGroup(images, rect, isWide, totalArea, i, bestSplit, found, bestKey,
           IF isWide THEN RMul(rect.width, ratio) ELSE rect.width,
           IF isWide THEN rect.height ELSE RMul(rect.height, ratio),
           RDiv(SumAspects(SubSeq(images, 1, i + 1)), R(i + 1)))
\* the loop over the split points i = 0 .. length - 2 (0-based); found tells
\* whether bestAspectRatio is still Infinity
BestSplitLoop(images, rect, isWide, totalArea, i, bestSplit, found, bestKey) ==
  IF i >= Len(images) - 1 THEN bestSplit
  ELSE TrySplit(images, rect, isWide, totalArea, i, bestSplit, found, bestKey,
                RDiv(SumImageAreas(SubSeq(images, 1, i + 1)), totalArea))

\* bestSplit += rng.next() < 0.5 ? -1 : 1
ShiftBy(best, d2) ==
  [split |-> IF ULt(d2.u, Half) THEN best - 1 ELSE best + 1, rng |-> d2.state,
   shifted |-> TRUE]
\* if (rng.next() < 0.2 && bestSplit > 1 && bestSplit < images.length - 1)
Shift(images, best, d1) ==
  IF ULt(d1.u, Frac(1, 5)) /\ best > 1 /\ best < Len(images) - 1
  THEN ShiftBy(best, RngNext(d1.state))
  ELSE [split |-> best, rng |-> d1.state, shifted |-> FALSE]
\* the split index after the random shift: [split, rng, shifted]
SplitPoint(images, rect, state) ==
  Shift(images,
        BestSplitLoop(images, rect, RGe(rect.width, rect.height), SumImageAreas(images),
                      0, 1, FALSE, Zero),
        RngNext(state))

\* the two sub-rectangles of a cut at the given share of the area
FirstRect(rect, ratio, gap) ==
  IF RGe(rect.width, rect.height)
  THEN Rect(rect.x, rect.y, RSub(RMul(rect.width, ratio), RDiv(gap, R(2))), rect.height)
  ELSE Rect(rect.x, rect.y, rect.width, RSub(RMul(rect.height, ratio), RDiv(gap, R(2))))
\* the second sub-rectangle as it would be if it began at the cut itself and took
\* the whole share, with no half gap kept free
SecondRectAtCut(rect, ratio, gap) ==
  IF RGe(rect.width, rect.height)
  THEN Rect(RAdd(rect.x, RMul(rect.width, ratio)), rect.y,
            RMul(rect.width, RSub(One, ratio)), rect.height)
  ELSE Rect(rect.x, RAdd(rect.y, RMul(rect.height, ratio)),
            rect.width, RMul(rect.height, RSub(One, ratio)))
SecondRect(rect, ratio, gap) ==
  IF RGe(rect.width, rect.height)
  THEN Rect(RAdd(RAdd(rect.x, RMul(rect.width, ratio)), RDiv(gap, R(2))), rect.y,
            RSub(RMul(rect.width, RSub(One, ratio)), RDiv(gap, R(2))), rect.height)
  ELSE Rect(rect.x, RAdd(RAdd(rect.y, RMul(rect.height, ratio)), RDiv(gap, R(2))),
            rect.width, RSub(RMul(rect.height, RSub(One, ratio)), RDiv(gap, R(2))))

\* the first group alone
JoinFirstOnly(first, second) ==
  [placements |-> first.placements, rng |-> second.rng,
   splits |-> first.splits \o second.splits]
\* the placements of the two groups; splits lists the cuts made, first to last
Join(first, second) ==
  [placements |-> first.placements \o second.placements, rng |-> second.rng,
   splits |-> first.splits \o second.splits]
Cut(images, sp, r) ==
  [r EXCEPT !.splits = <<[length |-> Len(images), bestSplit |-> sp.split,
                          shifted |-> sp.shifted]>> \o @]

RECURSIVE squarify(_, _, _, _, _)
RECURSIVE SquarifySecond(_, _, _, _, _, _, _)
RECURSIVE SquarifyCut(_, _, _, _, _, _)
RECURSIVE SquarifyAt(_, _, _, _, _)
\* the second group, laid out after the first
SquarifySecond(images, s, rect, gap, sp, ratio, first) ==
  Cut(images, sp,
      Join(first, squarify(SubSeq(images, sp.split + 1, Len(images)), s,
                           SecondRect(rect, ratio, gap), gap, first.rng)))
SquarifyCut(images, s, rect, gap, sp, ratio) ==
  SquarifySecond(images, s, rect, gap, sp, ratio,
                 squarify(SubSeq(images, 1, sp.split), s, FirstRect(rect, ratio, gap),
                          gap, sp.rng))
\* the cut at the split point sp
SquarifyAt(images, s, rect, gap, sp) ==
  SquarifyCut(images, s, rect, gap, sp,
              RDiv(SumImageAreas(SubSeq(images, 1, sp.split)), SumImageAreas(images)))
\* [placements, rng, splits]
squarify(images, s, rect, gap, state) ==
  IF images = <<>> THEN [placements |-> <<>>, rng |-> state, splits |-> <<>>]
  ELSE IF Len(images) = 1
  THEN [placements |-> <<layoutSingle(images[1], s, rect)>>, rng |-> state,
        splits |-> <<>>]
  ELSE SquarifyAt(images, s, rect, gap, SplitPoint(images, rect, state))

\* the uniform pre-scaling: Math.sqrt(availableArea / totalImageArea) * 0.85
TreemapScale(sortedImages, in) ==
  RMul(RSqrt(RDiv(RMul(in.pageWidth, in.pageHeight), SumImageAreas(sortedImages))),
       Frac(85, 100))

ScaleBy(images, scale) ==
  [i \in 1..Len(images) |->
     [id |-> images[i].id, width |-> RMul(images[i].width, scale),
      height |-> RMul(images[i].height, scale)]]

RECURSIVE NotPlacedIds(_, _)
\* images.filter(img => !placedIds.has(img.id)).map(img => img.id)
NotPlacedIds(images, placed) ==
  IF images = <<>> THEN <<>>
  ELSE (IF \E k \in 1..Len(placed) : placed[k].imageId = Head(images).id
        THEN <<>> ELSE <<Head(images).id>>) \o NotPlacedIds(Tail(images), placed)

\* the return statement of treemapAlgorithm
TreemapOutput(in, r) ==
  [output |-> [placements |-> r.placements,
               coverage |-> calculateCoverage(r.placements, in.pageWidth, in.pageHeight),
               unusedImageIds |-> NotPlacedIds(in.images, r.placements)],
   rng |-> r.rng]
TreemapSorted(in, sorted) ==
  TreemapOutput(in, squarify(sorted.images, TreemapScale(sorted.images, in),
                             Rect(Zero, Zero, in.pageWidth, in.pageHeight),
                             in.gapInches, sorted.rng))
TreemapOf(in, validImages) ==
  IF validImages = <<>>
  THEN [output |-> createEmptyOutput(in.images), rng |-> SeededRandom(in.seed)]
  ELSE TreemapSorted(in, biasedShuffleByArea(validImages, SeededRandom(in.seed),
                                             TreemapBias))
\* [output, rng]
TreemapRun(in) == TreemapOf(in, filterValidImages(in.images, in.minImageSizeInches))

treemapAlgorithm(in) == TreemapRun(in).output

(***************************************************************************)
(* Rectangle utilities                                                     *)
(***************************************************************************)
Right(r) == RAdd(r.x, r.width)
Bottom(r) == RAdd(r.y, r.height)

horizOverlap(rect, other, gap) ==
  ~(RLe(RAdd(Right(rect), gap), other.x) \/ RLe(RAdd(Right(other), gap), rect.x))

vertOverlap(rect, other, gap) ==
  ~(RLe(RAdd(Bottom(rect), gap), other.y) \/ RLe(RAdd(Bottom(other), gap), rect.y))

RECURSIVE findMinYFrom(_, _, _, _, _, _)
findMinYFrom(rect, placements, selfIndex, gap, i, minY) ==
  IF i > Len(placements) THEN minY
  ELSE LET other == placements[i].rect
       IN  IF i # selfIndex /\ RLe(Bottom(other), rect.y) /\ horizOverlap(rect, other, gap)
           THEN findMinYFrom(rect, placements, selfIndex, gap, i + 1,
                             RMax(minY, RAdd(Bottom(other), gap)))
           ELSE findMinYFrom(rect, placements, selfIndex, gap, i + 1, minY)
findMinY(rect, placements, selfIndex, gap) ==
  findMinYFrom(rect, placements, selfIndex, gap, 1, Zero)

RECURSIVE findMaxXFrom(_, _, _, _, _, _)
findMaxXFrom(rect, placements, selfIndex, gap, i, maxX) ==
  IF i > Len(placements) THEN maxX
  ELSE LET other == placements[i].rect
       IN  IF i # selfIndex /\ RGe(other.x, Right(rect)) /\ vertOverlap(rect, other, gap)
           THEN findMaxXFrom(rect, placements, selfIndex, gap, i + 1,
                             RMin(maxX, RSub(RSub(other.x, rect.width), gap)))
           ELSE findMaxXFrom(rect, placements, selfIndex, gap, i + 1, maxX)
findMaxX(rect, placements, selfIndex, gap, pageWidth) ==
  findMaxXFrom(rect, placements, selfIndex, gap, 1, RSub(pageWidth, rect.width))

RECURSIVE findMaxYFrom(_, _, _, _, _, _)
findMaxYFrom(rect, placements, selfIndex, gap, i, maxY) ==
  IF i > Len(placements) THEN maxY
  ELSE LET other == placements[i].rect
       IN  IF i # selfIndex /\ RGe(other.y, Bottom(rect)) /\ horizOverlap(rect, other, gap)
           THEN findMaxYFrom(rect, placements, selfIndex, gap, i + 1,
                             RMin(maxY, RSub(RSub(other.y, rect.height), gap)))
           ELSE findMaxYFrom(rect, placements, selfIndex, gap, i + 1, maxY)
findMaxY(rect, placements, selfIndex, gap, pageHeight) ==
  findMaxYFrom(rect, placements, selfIndex, gap, 1, RSub(pageHeight, rect.height))

RECURSIVE findMinXFrom(_, _, _, _, _, _)
findMinXFrom(rect, placements, selfIndex, gap, i, minX) ==
  IF i > Len(placements) THEN minX
  ELSE LET other == placements[i].rect
       IN  IF i # selfIndex /\ RLe(Right(other), rect.x) /\ vertOverlap(rect, other, gap)
           THEN findMinXFrom(rect, placements, selfIndex, gap, i + 1,
                             RMax(minX, RAdd(Right(other), gap)))
           ELSE findMinXFrom(rect, placements, selfIndex, gap, i + 1, minX)
findMinX(rect, placements, selfIndex, gap) ==
  findMinXFrom(rect, placements, selfIndex, gap, 1, Zero)

RECURSIVE rightBlockerFrom(_, _, _, _, _, _)
rightBlockerFrom(rect, placements, selfIndex, gap, i, minBlocker) ==
  IF i > Len(placements) THEN minBlocker
  ELSE LET other == placements[i].rect
       IN  IF i # selfIndex /\ RGt(other.x, RSub(Right(rect), gap))
              /\ vertOverlap(rect, other, gap)
           THEN rightBlockerFrom(rect, placements, selfIndex, gap, i + 1,
                                 RMin(minBlocker, RSub(other.x, gap)))
           ELSE rightBlockerFrom(rect, placements, selfIndex, gap, i + 1, minBlocker)
findSpaceRight(rect, placements, selfIndex, gap, pageWidth) ==
  RSub(rightBlockerFrom(rect, placements, selfIndex, gap, 1, pageWidth), Right(rect))

RECURSIVE leftBlockerFrom(_, _, _, _, _, _)
leftBlockerFrom(rect, placements, selfIndex, gap, i, maxBlocker) ==
  IF i > Len(placements) THEN maxBlocker
  ELSE LET other == placements[i].rect
       IN  IF i # selfIndex /\ RLt(Right(other), RAdd(rect.x, gap))
              /\ vertOverlap(rect, other, gap)
           THEN leftBlockerFrom(rect, placements, selfIndex, gap, i + 1,
                                RMax(maxBlocker, RAdd(Right(other), gap)))
           ELSE leftBlockerFrom(rect, placements, selfIndex, gap, i + 1, maxBlocker)
findSpaceLeft(rect, placements, selfIndex, gap) ==
  RSub(rect.x, leftBlockerFrom(rect, placements, selfIndex, gap, 1, Zero))

RECURSIVE belowBlockerFrom(_, _, _, _, _, _)
belowBlockerFrom(rect, placements, selfIndex, gap, i, minBlocker) ==
  IF i > Len(placements) THEN minBlocker
  ELSE LET other == placements[i].rect
       IN  IF i # selfIndex /\ RGt(other.y, RSub(Bottom(rect), gap))
              /\ horizOverlap(rect, other, gap)
           THEN belowBlockerFrom(rect, placements, selfIndex, gap, i + 1,
                                 RMin(minBlocker, RSub(other.y, gap)))
           ELSE belowBlockerFrom(rect, placements, selfIndex, gap, i + 1, minBlocker)
findSpaceBelow(rect, placements, selfIndex, gap, pageHeight) ==
  RSub(belowBlockerFrom(rect, placements, selfIndex, gap, 1, pageHeight), Bottom(rect))

RECURSIVE aboveBlockerFrom(_, _, _, _, _, _)
aboveBlockerFrom(rect, placements, selfIndex, gap, i, maxBlocker) ==
  IF i > Len(placements) THEN maxBlocker
  ELSE LET other == placements[i].rect
       IN  IF i # selfIndex /\ RLt(Bottom(other), RAdd(rect.y, gap))
              /\ horizOverlap(rect, other, gap)
           THEN aboveBlockerFrom(rect, placements, selfIndex, gap, i + 1,
                                 RMax(maxBlocker, RAdd(Bottom(other), gap)))
           ELSE aboveBlockerFrom(rect, placements, selfIndex, gap, i + 1, maxBlocker)
findSpaceAbove(rect, placements, selfIndex, gap) ==
  RSub(rect.y, aboveBlockerFrom(rect, placements, selfIndex, gap, 1, Zero))


(***************************************************************************)
(* Spiral post-processing                                                  *)
(***************************************************************************)
MoveTo(result, i, x, y) == [result EXCEPT ![i].rect.x = x, ![i].rect.y = y]

\* a move is applied only when it takes the rect toward its edge
UpTo(result, i, newY) ==
  IF RLt(newY, result[i].rect.y) THEN MoveTo(result, i, result[i].rect.x, newY) ELSE result
RightTo(result, i, newX) ==
  IF RGt(newX, result[i].rect.x) THEN MoveTo(result, i, newX, result[i].rect.y) ELSE result
DownTo(result, i, newY) ==
  IF RGt(newY, result[i].rect.y) THEN MoveTo(result, i, result[i].rect.x, newY) ELSE result
LeftTo(result, i, newX) ==
  IF RLt(newX, result[i].rect.x) THEN MoveTo(result, i, newX, result[i].rect.y) ELSE result

\* up to the page edge, whatever lies above
MoveUpToEdge(result, i, gap) == UpTo(result, i, Zero)
MoveUp(result, i, gap) == UpTo(result, i, findMinY(result[i].rect, result, i, gap))
MoveRight(result, i, gap, pageWidth) ==
  RightTo(result, i, findMaxX(result[i].rect, result, i, gap, pageWidth))
MoveDown(result, i, gap, pageHeight) ==
  DownTo(result, i, findMaxY(result[i].rect, result, i, gap, pageHeight))
MoveLeft(result, i, gap) == LeftTo(result, i, findMinX(result[i].rect, result, i, gap))

\* the move toward the nearest page edge, if the rect is farther than gap from it
TuckToward(result, i, gap, pageWidth, pageHeight, distToTop, distToRight, distToBottom, distToLeft, minDist) ==
  IF minDist = distToTop /\ RGt(distToTop, gap) THEN MoveUp(result, i, gap)
  ELSE IF minDist = distToRight /\ RGt(distToRight, gap)
  THEN MoveRight(result, i, gap, pageWidth)
  ELSE IF minDist = distToBottom /\ RGt(distToBottom, gap)
  THEN MoveDown(result, i, gap, pageHeight)
  ELSE IF minDist = distToLeft /\ RGt(distToLeft, gap) THEN MoveLeft(result, i, gap)
  ELSE result
TuckBy(result, i, gap, pageWidth, pageHeight, distToTop, distToRight, distToBottom, distToLeft) ==
  TuckToward(result, i, gap, pageWidth, pageHeight,
             distToTop, distToRight, distToBottom, distToLeft,
             RMin(RMin(distToTop, distToRight), RMin(distToBottom, distToLeft)))
TuckOne(result, i, gap, pageWidth, pageHeight) ==
  TuckBy(result, i, gap, pageWidth, pageHeight,
         result[i].rect.y, RSub(pageWidth, Right(result[i].rect)),
         RSub(pageHeight, Bottom(result[i].rect)), result[i].rect.x)

RECURSIVE TuckFrom(_, _, _, _, _)
TuckFrom(result, i, gap, pageWidth, pageHeight) ==
  IF i > Len(result) THEN result
  ELSE TuckFrom(TuckOne(result, i, gap, pageWidth, pageHeight), i + 1, gap,
                pageWidth, pageHeight)
tuckPlacements(placements, gap, pageWidth, pageHeight) ==
  TuckFrom(placements, 1, gap, pageWidth, pageHeight)

CentreX(rect) == RAdd(rect.x, RDiv(rect.width, R(2)))
CentreY(rect) == RAdd(rect.y, RDiv(rect.height, R(2)))

\* the move away from the page centre along the dominant direction
ShiftToward(result, i, gap, pageWidth, pageHeight, dx, dy) ==
  IF RGt(RAbs(dx), RAbs(dy))
  THEN IF RGt(dx, Zero) THEN MoveRight(result, i, gap, pageWidth)
       ELSE MoveLeft(result, i, gap)
  ELSE IF RGt(dy, Zero) THEN MoveDown(result, i, gap, pageHeight)
       ELSE MoveUp(result, i, gap)
ShiftOne(result, i, gap, pageWidth, pageHeight) ==
  ShiftToward(result, i, gap, pageWidth, pageHeight,
              RSub(CentreX(result[i].rect), RDiv(pageWidth, R(2))),
              RSub(CentreY(result[i].rect), RDiv(pageHeight, R(2))))

RECURSIVE ShiftFrom(_, _, _, _, _)
ShiftFrom(result, i, gap, pageWidth, pageHeight) ==
  IF i > Len(result) THEN result
  ELSE ShiftFrom(ShiftOne(result, i, gap, pageWidth, pageHeight), i + 1, gap,
                 pageWidth, pageHeight)
shiftOutward(placements, gap, pageWidth, pageHeight) ==
  ShiftFrom(placements, 1, gap, pageWidth, pageHeight)

\* the free space in the dominant direction toward the centre
SpaceToward(result, i, gap, pageWidth, pageHeight, horizontal, right, down) ==
  IF horizontal
  THEN IF right THEN findSpaceRight(result[i].rect, result, i, gap, pageWidth)
       ELSE findSpaceLeft(result[i].rect, result, i, gap)
  ELSE IF down THEN findSpaceBelow(result[i].rect, result, i, gap, pageHeight)
       ELSE findSpaceAbove(result[i].rect, result, i, gap)

\* the factor the space leaves room for, at most back to the original size
PossibleScale(p, extent, space) ==
  IF RGt(space, Zero)
  THEN RMin(RInv(p.scaleFactor), RDiv(RAdd(extent, space), extent))
  ELSE One

\* rect and placement.rect are one object, so the re-centring terms
\* (newHeight - placement.rect.height) / 2 are read after the assignment and are 0
Resize(result, i, pageWidth, pageHeight, horizontal, right, down, newScale, newWidth, newHeight) ==
  [result EXCEPT ![i] =
     [imageId |-> result[i].imageId,
      rect |-> [x |-> RMax(Zero,
                           RMin(IF horizontal /\ ~right
                                THEN RSub(result[i].rect.x,
                                          RSub(newWidth, result[i].rect.width))
                                ELSE result[i].rect.x,
                                RSub(pageWidth, newWidth))),
                y |-> RMax(Zero,
                           RMin(IF ~horizontal /\ ~down
                                THEN RSub(result[i].rect.y,
                                          RSub(newHeight, result[i].rect.height))
                                ELSE result[i].rect.y,
                                RSub(pageHeight, newHeight))),
                width |-> newWidth, height |-> newHeight],
      scaleFactor |-> newScale, rotated |-> result[i].rotated]]

\* only a change of more than 0.1% is applied
ExpandChange(result, i, pageWidth, pageHeight, horizontal, right, down, newScale, actualScaleChange) ==
  IF RGt(actualScaleChange, Frac(1001, 1000))
  THEN Resize(result, i, pageWidth, pageHeight, horizontal, right, down, newScale,
              RMul(result[i].rect.width, actualScaleChange),
              RMul(result[i].rect.height, actualScaleChange))
  ELSE result
ExpandTo(result, i, pageWidth, pageHeight, horizontal, right, down, newScale) ==
  ExpandChange(result, i, pageWidth, pageHeight, horizontal, right, down, newScale,
               RDiv(newScale, result[i].scaleFactor))
ExpandWith(result, i, pageWidth, pageHeight, horizontal, right, down, possibleScale) ==
  IF RGt(possibleScale, One)
  THEN ExpandTo(result, i, pageWidth, pageHeight, horizontal, right, down,
                RMin(RMul(result[i].scaleFactor, possibleScale), One))
  ELSE result
ExpandAlong(result, i, gap, pageWidth, pageHeight, horizontal, right, down) ==
  ExpandWith(result, i, pageWidth, pageHeight, horizontal, right, down,
             PossibleScale(result[i],
                           IF horizontal THEN result[i].rect.width
                           ELSE result[i].rect.height,
                           SpaceToward(result, i, gap, pageWidth, pageHeight,
                                       horizontal, right, down)))
ExpandToward(result, i, gap, pageWidth, pageHeight, dx, dy) ==
  ExpandAlong(result, i, gap, pageWidth, pageHeight,
              RGt(RAbs(dx), RAbs(dy)), RGt(dx, Zero), RGt(dy, Zero))
\* a placement scaled below its original size grows toward the page centre
ExpandOne(result, i, gap, pageWidth, pageHeight) ==
  IF RGe(result[i].scaleFactor, One) THEN result
  ELSE ExpandToward(result, i, gap, pageWidth, pageHeight,
                    RSub(RDiv(pageWidth, R(2)), CentreX(result[i].rect)),
                    RSub(RDiv(pageHeight, R(2)), CentreY(result[i].rect)))

RECURSIVE ExpandFrom(_, _, _, _, _)
ExpandFrom(result, i, gap, pageWidth, pageHeight) ==
  IF i > Len(result) THEN result
  ELSE ExpandFrom(ExpandOne(result, i, gap, pageWidth, pageHeight), i + 1, gap,
                  pageWidth, pageHeight)
expandToFillCenter(placements, gap, pageWidth, pageHeight) ==
  ExpandFrom(placements, 1, gap, pageWidth, pageHeight)

(***************************************************************************)
(* Spiral                                                                  *)
(***************************************************************************)
SpiralBias == Frac(9, 10)

Horizontal(edge) == edge \in {"top", "bottom"}

\* the thickness fillEdge allows on an edge; the left edge reads the height
availableThickness(edge, bounds) ==
  IF edge = "right" THEN RSub(bounds.right, bounds.left) ELSE RSub(bounds.bottom, bounds.top)

StartCursor(edge, bounds) ==
  CASE edge = "top" -> bounds.left
    [] edge = "right" -> bounds.top
    [] edge = "bottom" -> bounds.right
    [] edge = "left" -> bounds.bottom

\* the image fits the rest of the edge from the cursor on
FitsEdge(edge, bounds, cursor, lengthDim) ==
  CASE edge = "top" -> RLe(RAdd(cursor, lengthDim), bounds.right)
    [] edge = "right" -> RLe(RAdd(cursor, lengthDim), bounds.bottom)
    [] edge = "bottom" -> RGe(RSub(cursor, lengthDim), bounds.left)
    [] edge = "left" -> RGe(RSub(cursor, lengthDim), bounds.top)

\* where an image of the given extent along and across the edge is put
EdgeX(edge, bounds, cursor, lengthDim, thicknessDim) ==
  CASE edge = "top" -> cursor
    [] edge = "right" -> RSub(bounds.right, thicknessDim)
    [] edge = "bottom" -> RSub(cursor, lengthDim)
    [] edge = "left" -> bounds.left
EdgeY(edge, bounds, cursor, lengthDim, thicknessDim) ==
  CASE edge = "top" -> bounds.top
    [] edge = "right" -> cursor
    [] edge = "bottom" -> RSub(bounds.bottom, thicknessDim)
    [] edge = "left" -> RSub(cursor, lengthDim)
\* the cursor after an image of the given extent along the edge
Advance(edge, cursor, lengthDim, gap) ==
  IF edge \in {"top", "right"} THEN RAdd(cursor, RAdd(lengthDim, gap))
  ELSE RSub(cursor, RAdd(lengthDim, gap))

RECURSIVE FillLoop(_, _, _, _, _, _, _)
RECURSIVE FillOne(_, _, _, _, _, _, _, _, _)
FillOne(edge, images, bounds, gap, minSize, cursor, acc, lengthDim, thicknessDim) ==
  IF /\ ~(RGt(thicknessDim, availableThickness(edge, bounds)) \/ RLt(lengthDim, minSize))
     /\ FitsEdge(edge, bounds, cursor, lengthDim)
  THEN FillLoop(edge, Tail(images), bounds, gap, minSize,
                Advance(edge, cursor, lengthDim, gap),
                [placed |-> Append(acc.placed,
                                   Placement(Head(images).id,
                                             EdgeX(edge, bounds, cursor, lengthDim,
                                                   thicknessDim),
                                             EdgeY(edge, bounds, cursor, lengthDim,
                                                   thicknessDim),
                                             Head(images).width, Head(images).height, One)),
                 remaining |-> acc.remaining,
                 maxThickness |-> RMax(acc.maxThickness, thicknessDim)])
  ELSE FillLoop(edge, Tail(images), bounds, gap, minSize, cursor,
                [acc EXCEPT !.remaining = Append(acc.remaining, Head(images))])
\* the loop of fillEdge over the queue; acc is [placed, remaining, maxThickness]
FillLoop(edge, images, bounds, gap, minSize, cursor, acc) ==
  IF images = <<>> THEN acc
  ELSE FillOne(edge, images, bounds, gap, minSize, cursor, acc,
               IF Horizontal(edge) THEN Head(images).width ELSE Head(images).height,
               IF Horizontal(edge) THEN Head(images).height ELSE Head(images).width)

fillEdge(edge, images, bounds, gap, minSize) ==
  FillLoop(edge, images, bounds, gap, minSize, StartCursor(edge, bounds),
           [placed |-> <<>>, remaining |-> <<>>, maxThickness |-> Zero])

RECURSIVE SumLengths(_, _)
SumLengths(edge, placed) ==
  IF placed = <<>> THEN Zero
  ELSE RAdd(IF Horizontal(edge) THEN Head(placed).rect.width ELSE Head(placed).rect.height,
            SumLengths(edge, Tail(placed)))

RECURSIVE MaxThickness(_, _)
MaxThickness(edge, placed) ==
  IF placed = <<>> THEN Zero
  ELSE RMax(IF Horizontal(edge) THEN Head(placed).rect.height ELSE Head(placed).rect.width,
            MaxThickness(edge, Tail(placed)))

EdgeLength(edge, bounds) ==
  IF Horizontal(edge) THEN RSub(bounds.right, bounds.left)
  ELSE RSub(bounds.bottom, bounds.top)
\* the factor of scaleEdgeToFit, clamped to [1.0, 1.5]
\* the factor that shrinks the images by what EdgeScale would enlarge them
EdgeScaleDown(edge, placed, bounds, gap) ==
  RInv(RMax(RMin(RDiv(RSub(EdgeLength(edge, bounds), RMul(R(Len(placed) - 1), gap)),
                      SumLengths(edge, placed)),
                 Frac(3, 2)),
            One))
EdgeScale(edge, placed, bounds, gap) ==
  RMax(RMin(RDiv(RSub(EdgeLength(edge, bounds), RMul(R(Len(placed) - 1), gap)),
                 SumLengths(edge, placed)),
            Frac(3, 2)),
       One)

RECURSIVE RepositionLoop(_, _, _, _, _, _)
RECURSIVE RepositionOne(_, _, _, _, _, _, _, _)
RepositionOne(edge, placed, bounds, gap, scaleFactor, cursor, newWidth, newHeight) ==
  <<Placement(Head(placed).imageId,
              EdgeX(edge, bounds, cursor, newWidth, newWidth),
              EdgeY(edge, bounds, cursor, newHeight, newHeight),
              newWidth, newHeight, RMul(Head(placed).scaleFactor, scaleFactor))>>
  \o RepositionLoop(edge, Tail(placed), bounds, gap, scaleFactor,
                    Advance(edge, cursor,
                            IF Horizontal(edge) THEN newWidth ELSE newHeight, gap))
RepositionLoop(edge, placed, bounds, gap, scaleFactor, cursor) ==
  IF placed = <<>> THEN <<>>
  ELSE RepositionOne(edge, placed, bounds, gap, scaleFactor, cursor,
                     RMul(Head(placed).rect.width, scaleFactor),
                     RMul(Head(placed).rect.height, scaleFactor))

ScaleEdgeBy(edge, placed, bounds, gap, scaleFactor) ==
  [placements |-> RepositionLoop(edge, placed, bounds, gap, scaleFactor,
                                 StartCursor(edge, bounds)),
   newThickness |-> RMul(MaxThickness(edge, placed), scaleFactor)]
\* [placements, newThickness]
scaleEdgeToFit(edge, placed, bounds, gap) ==
  IF placed = <<>> THEN [placements |-> <<>>, newThickness |-> Zero]
  ELSE ScaleEdgeBy(edge, placed, bounds, gap, EdgeScale(edge, placed, bounds, gap))

\* the bounds after an edge of the given thickness has been laid
ShrinkBounds(edge, bounds, delta) ==
  CASE edge = "top" -> [bounds EXCEPT !.top = RAdd(bounds.top, delta)]
    [] edge = "right" -> [bounds EXCEPT !.right = RSub(bounds.right, delta)]
    [] edge = "bottom" -> [bounds EXCEPT !.bottom = RSub(bounds.bottom, delta)]
    [] edge = "left" -> [bounds EXCEPT !.left = RAdd(bounds.left, delta)]

NextEdge(edge) ==
  CASE edge = "top" -> "right"
    [] edge = "right" -> "bottom"
    [] edge = "bottom" -> "left"
    [] edge = "left" -> "top"

\* the break conditions behind each edge and the test that ends a round
Stop(st, minSize, q, b) ==
  IF st.edge = "left"
  THEN \/ Len(q) = st.startCount
       \/ RLt(RSub(b.right, b.left), minSize)
       \/ RLt(RSub(b.bottom, b.top), minSize)
       \/ q = <<>>
  ELSE q = <<>> \/ (IF st.edge = "right" THEN RGe(b.left, b.right) ELSE RGe(b.top, b.bottom))

\* the loop state behind an edge that left the queue q, the placements placed
\* and the bounds b
EdgeDone(st, minSize, q, placed, b) ==
  [imageQueue |-> q,
   placements |-> placed,
   bounds |-> b,
   edge |-> NextEdge(st.edge),
   startCount |-> IF st.edge = "left" THEN Len(q) ELSE st.startCount,
   looping |-> ~Stop(st, minSize, q, b)]

AfterScale(st, gap, minSize, fill, scaled) ==
  EdgeDone(st, minSize, fill.remaining, st.placements \o scaled.placements,
           ShrinkBounds(st.edge, st.bounds, RAdd(scaled.newThickness, gap)))
AfterFill(st, gap, minSize, fill) ==
  IF fill.placed # <<>>
  THEN AfterScale(st, gap, minSize, fill,
                  scaleEdgeToFit(st.edge, fill.placed, st.bounds, gap))
  ELSE EdgeDone(st, minSize, fill.remaining, st.placements, st.bounds)
\* one edge of the while loop of spiralAlgorithm on the loop state
\* [imageQueue, placements, bounds, edge, startCount, looping]
SpiralEdge(st, gap, minSize) ==
  AfterFill(st, gap, minSize, fillEdge(st.edge, st.imageQueue, st.bounds, gap, minSize))

SpiralFirst(sortedImages, in) ==
  [imageQueue |-> sortedImages, placements |-> <<>>,
   bounds |-> [left |-> Zero, top |-> Zero, right |-> in.pageWidth, bottom |-> in.pageHeight],
   edge |-> "top", startCount |-> Len(sortedImages), looping |-> TRUE]

RECURSIVE SpiralLoop(_, _, _)
SpiralLoop(st, gap, minSize) ==
  IF st.looping THEN SpiralLoop(SpiralEdge(st, gap, minSize), gap, minSize) ELSE st

SpiralOutput(in, st, expanded) ==
  [placements |-> expanded,
   coverage |-> calculateCoverage(expanded, in.pageWidth, in.pageHeight),
   unusedImageIds |-> Ids(st.imageQueue)]
\* the three post-processing passes on the loop's placements
SpiralFinish(in, st) ==
  SpiralOutput(in, st,
               expandToFillCenter(
                 shiftOutward(
                   tuckPlacements(st.placements, in.gapInches, in.pageWidth, in.pageHeight),
                   in.gapInches, in.pageWidth, in.pageHeight),
                 in.gapInches, in.pageWidth, in.pageHeight))
SpiralRun(in, validImages) ==
  IF validImages = <<>> THEN createEmptyOutput(in.images)
  ELSE SpiralFinish(in, SpiralLoop(SpiralFirst(biasedShuffleByArea(validImages,
                                                                   SeededRandom(in.seed),
                                                                   SpiralBias).images,
                                               in),
                                   in.gapInches, in.minImageSizeInches))
spiralAlgorithm(in) == SpiralRun(in, filterValidImages(in.images, in.minImageSizeInches))

(***************************************************************************)
(* State                                                                   *)
(***************************************************************************)
VARIABLES
  input,           \* the AlgorithmInput of the request (for the optimizer: the pool)
  alg,             \* the algorithm the request names
  caller,          \* "direct": the algorithm is called; "optimizer": optimizeScaleFactor is
  settings,        \* maxDownscalePercent and normalizeImageSizes of the optimizer call
  pc,              \* where the running call is
  rng,             \* the state of the SeededRandom object of the running algorithm
  queue,           \* the images the loop has still to look at
  placements,      \* PlacedImage[] built so far
  unusedImageIds,  \* string[] built so far
  currentRow,      \* FFD-row: the caller's Row object
  freeRects,       \* guillotine: the free rectangles
  columns,         \* masonry: the columns
  bounds,          \* spiral: the working bounds
  edge,            \* spiral: the edge the loop fills next
  startCount,      \* spiral: the queue length at the start of the round
  output,          \* the AlgorithmOutput returned, NULL before the return
  scales,          \* optimizer: the coarse scales still to try
  bestScale,       \* optimizer: let bestScale
  bestCoverage,    \* optimizer: let bestCoverage
  bestOutput,      \* optimizer: let bestOutput, NULL for null
  iterations,      \* optimizer: algorithm runs of the running phase
  low,             \* binary search: let low
  high,            \* binary search: let high
  searchIterations,\* binary search: let iterations
  result,          \* the OptimizationResult returned, NULL before the return
  history,         \* what the earlier calls with this input returned
  evaluated,       \* optimizer: the runs of the algorithm made by the running call
  events,          \* createCollageCanvas: the CollageProgress events reported so far
  rendered,        \* createCollageCanvas: the index i of the rendering loop
  selected         \* createCollageCanvas: the ids of the pool images with selected = true

vars == <<input, alg, caller, settings, pc, rng, queue, placements, unusedImageIds,
          currentRow, freeRects, columns, bounds, edge, startCount, output, scales,
          bestScale, bestCoverage, bestOutput, iterations, low, high, searchIterations,
          result, history, evaluated, events, rendered, selected>>

(***************************************************************************)
(* Inputs                                                                  *)
(***************************************************************************)
Algorithms == {"ffd-row", "masonry", "guillotine", "spiral", "treemap"}

SizeOf(k, dims) == [width |-> R(((k - 1) \div Cardinality(dims)) + 1),
                    height |-> R(((k - 1) % Cardinality(dims)) + 1)]
\* the image lists of up to MaxImages images with sides in dims = 1..d, one list for
\* every multiset of sizes (the ids are the positions, so a reordered list is the
\* same list relabelled, except for the order the stable sort gives equal areas)
ListsOf(dims, n) ==
  {[i \in 1..n |-> [id |-> i, width |-> SizeOf(f[i], dims).width,
                    height |-> SizeOf(f[i], dims).height]] :
     f \in {g \in [1..n -> 1..(Cardinality(dims) * Cardinality(dims))] :
              \A i \in 1..(n - 1) : g[i] <= g[i + 1]}}
ImageLists(dims) == UNION {ListsOf(dims, n) : n \in 0..MaxImages}

InputsOf(lists, seeds) ==
  [images : lists,
   pageWidth : {R(w) : w \in PageDims},
   pageHeight : {R(h) : h \in PageDims},
   gapInches : {R(g) : g \in Gaps},
   minImageSizeInches : {R(m) : m \in MinSizes},
   seed : seeds]
Inputs(dims, seeds) == InputsOf(ImageLists(dims), seeds)

\* normalizeImageSizes keeps its default, false
Settings(percents) == [maxDownscalePercent : percents, normalizeImageSizes : {FALSE}]

NoGenerator == <<0, 0>>
NoBounds == [left |-> Zero, top |-> Zero, right |-> Zero, bottom |-> Zero]

\* nothing has run yet
Blank ==
  /\ rng = NoGenerator
  /\ queue = <<>>
  /\ placements = <<>>
  /\ unusedImageIds = <<>>
  /\ currentRow = FirstRow
  /\ freeRects = <<>>
  /\ columns = <<>>
  /\ bounds = NoBounds
  /\ edge = "top"
  /\ startCount = 0
  /\ output = NULL
  /\ scales = <<>>
  /\ bestScale = One
  /\ bestCoverage = Zero
  /\ bestOutput = NULL
  /\ iterations = 0
  /\ low = Zero
  /\ high = Zero
  /\ searchIterations = 0
  /\ result = NULL
  /\ history = <<>>
  /\ evaluated = <<>>
  /\ events = <<>>
  /\ rendered = 0
  /\ selected = {}
Idle == pc = "idle" /\ Blank

\* an algorithm called with an input
Direct(inputs, algs) ==
  /\ input \in inputs
  /\ alg \in algs
  /\ caller = "direct"
  /\ settings \in Settings({0})
  /\ Idle

\* optimizeScaleFactor called with a pool
Optimizer(inputs, algs, percents) ==
  /\ input \in inputs
  /\ alg \in algs
  /\ caller = "optimizer"
  /\ settings \in Settings(percents)
  /\ Idle

\* the base DPI of the source images, in createCollageCanvas
BaseDpi == 300
\* the pool images of the given sizes in inches, in pixels at BaseDpi
PoolOf(images) ==
  [i \in 1..Len(images) |-> [id |-> images[i].id,
                             width |-> RMul(images[i].width, R(BaseDpi)),
                             height |-> RMul(images[i].height, R(BaseDpi))]]
imagesToDimensions(images, dpi) ==
  [i \in 1..Len(images) |-> [id |-> images[i].id,
                             width |-> RDiv(images[i].width, R(dpi)),
                             height |-> RDiv(images[i].height, R(dpi))]]

\* createCollageCanvas called with a pool, before its first statement; input
\* holds the arguments it will pass to optimizeScaleFactor
Canvas(inputs, algs, percents) ==
  /\ input \in {[in EXCEPT !.images = imagesToDimensions(PoolOf(in.images), BaseDpi)] :
                  in \in inputs}
  /\ alg \in algs
  /\ caller = "optimizer"
  /\ settings \in Settings(percents)
  /\ pc = "called"
  /\ Blank

Init == Direct(Inputs(SmallDims, Seeds), Algorithms)
        \/ Optimizer(Inputs(SmallDims, PoolSeeds), Algorithms, {50})

\* the generator an earlier run has left behind
StaleGenerator == rng

\* const rng = new SeededRandom(seed), the first statement of every algorithm
FreshGenerator == SeededRandom(input.seed)

Returned(out) ==
  /\ output' = out
  /\ pc' = "done"

Output(placed, unused) ==
  [placements |-> placed,
   coverage |-> calculateCoverage(placed, input.pageWidth, input.pageHeight),
   unusedImageIds |-> unused]

\* the loop body behind the call r: the placement is kept, or the image is unused
Keep(r) ==
  IF r.placed # NULL
  THEN placements' = Append(placements, r.placed) /\ UNCHANGED unusedImageIds
  ELSE unusedImageIds' = Append(unusedImageIds, Head(queue).id) /\ UNCHANGED placements

\* the loop starts on the shuffled images with nothing placed
Sorted(sorted) ==
  /\ queue' = sorted.images
  /\ rng' = sorted.rng
  /\ placements' = <<>>
  /\ unusedImageIds' = <<>>
Shuffled(validImages, biasFactor) ==
  Sorted(biasedShuffleByArea(validImages, FreshGenerator, biasFactor))

(***************************************************************************)
(* FFD-row, one loop pass per step                                         *)
(***************************************************************************)
FfdStart ==
  /\ pc = "idle" /\ caller = "direct" /\ alg = "ffd-row"
  /\ Shuffled(filterValidImages(input.images, input.minImageSizeInches), FfdBias)
  /\ currentRow' = FirstRow
  /\ pc' = "ffd"
  /\ UNCHANGED <<input, alg, caller, settings, freeRects, columns, bounds, edge, startCount,
                 output, scales, bestScale, bestCoverage, bestOutput, iterations, low, high,
                 searchIterations, result, history, evaluated, events, rendered, selected>>

FfdTried(r) == currentRow' = r.row /\ Keep(r)

FfdPlace ==
  /\ pc = "ffd" /\ queue # <<>>
  /\ FfdTried(tryPlaceImage(Head(queue), currentRow, input.pageWidth, input.pageHeight,
                            input.gapInches))
  /\ queue' = Tail(queue)
  /\ UNCHANGED <<input, alg, caller, settings, pc, rng, freeRects, columns, bounds, edge,
                 startCount, output, scales, bestScale, bestCoverage, bestOutput, iterations,
                 low, high, searchIterations, result, history, evaluated, events, rendered, selected>>

FfdReturn ==
  /\ pc = "ffd" /\ queue = <<>>
  /\ Returned(Output(placements, unusedImageIds))
  /\ UNCHANGED <<input, alg, caller, settings, rng, queue, placements, unusedImageIds,
                 currentRow, freeRects, columns, bounds, edge, startCount, scales, bestScale,
                 bestCoverage, bestOutput, iterations, low, high, searchIterations, result,
                 history, evaluated, events, rendered, selected>>

NextFfd == FfdStart \/ FfdPlace \/ FfdReturn

(***************************************************************************)
(* Guillotine                                                              *)
(***************************************************************************)
GuillotineBegin(validImages) ==
  IF validImages = <<>>
  THEN /\ Returned(createEmptyOutput(input.images))
       /\ UNCHANGED <<rng, queue, placements, unusedImageIds, freeRects>>
  ELSE /\ Shuffled(validImages, GuillotineBias)
       /\ freeRects' = WholePage(input)
       /\ pc' = "guillotine"
       /\ UNCHANGED output

GuillotineStart ==
  /\ pc = "idle" /\ caller = "direct" /\ alg = "guillotine"
  /\ GuillotineBegin(filterValidImages(input.images, input.minImageSizeInches))
  /\ UNCHANGED <<input, alg, caller, settings, currentRow, columns, bounds, edge, startCount,
                 scales, bestScale, bestCoverage, bestOutput, iterations, low, high,
                 searchIterations, result, history, evaluated, events, rendered, selected>>

GuillotineTried(r) == freeRects' = r.freeRects /\ Keep(r)

GuillotinePlace ==
  /\ pc = "guillotine" /\ queue # <<>>
  /\ GuillotineTried(placeImage(Head(queue), freeRects, input.gapInches))
  /\ queue' = Tail(queue)
  /\ UNCHANGED <<input, alg, caller, settings, pc, rng, currentRow, columns, bounds, edge,
                 startCount, output, scales, bestScale, bestCoverage, bestOutput, iterations,
                 low, high, searchIterations, result, history, evaluated, events, rendered, selected>>

GuillotineReturn ==
  /\ pc = "guillotine" /\ queue = <<>>
  /\ Returned(Output(placements, unusedImageIds))
  /\ UNCHANGED <<input, alg, caller, settings, rng, queue, placements, unusedImageIds,
                 currentRow, freeRects, columns, bounds, edge, startCount, scales, bestScale,
                 bestCoverage, bestOutput, iterations, low, high, searchIterations, result,
                 history, evaluated, events, rendered, selected>>

NextGuillotine == GuillotineStart \/ GuillotinePlace \/ GuillotineReturn

(***************************************************************************)
(* Masonry                                                                 *)
(***************************************************************************)
MasonryBegin(validImages) ==
  IF validImages = <<>>
  THEN /\ Returned(createEmptyOutput(input.images))
       /\ UNCHANGED <<rng, queue, placements, unusedImageIds, columns>>
  ELSE /\ columns' = InitialColumns(validImages, input)
       /\ Shuffled(validImages, MasonryBias)
       /\ pc' = "masonry"
       /\ UNCHANGED output

MasonryStart ==
  /\ pc = "idle" /\ caller = "direct" /\ alg = "masonry"
  /\ MasonryBegin(filterValidImages(input.images, input.minImageSizeInches))
  /\ UNCHANGED <<input, alg, caller, settings, currentRow, freeRects, bounds, edge, startCount,
                 scales, bestScale, bestCoverage, bestOutput, iterations, low, high,
                 searchIterations, result, history, evaluated, events, rendered, selected>>

MasonryTried(r) == columns' = r.columns /\ Keep(r)

MasonryPlace ==
  /\ pc = "masonry" /\ queue # <<>>
  /\ MasonryTried(placeInShortestColumn(Head(queue), columns, input.pageHeight,
                                        input.gapInches))
  /\ queue' = Tail(queue)
  /\ UNCHANGED <<input, alg, caller, settings, pc, rng, currentRow, freeRects, bounds, edge,
                 startCount, output, scales, bestScale, bestCoverage, bestOutput, iterations,
                 low, high, searchIterations, result, history, evaluated, events, rendered, selected>>

MasonryReturn ==
  /\ pc = "masonry" /\ queue = <<>>
  /\ Returned(Output(placements, unusedImageIds))
  /\ UNCHANGED <<input, alg, caller, settings, rng, queue, placements, unusedImageIds,
                 currentRow, freeRects, columns, bounds, edge, startCount, scales, bestScale,
                 bestCoverage, bestOutput, iterations, low, high, searchIterations, result,
                 history, evaluated, events, rendered, selected>>

NextMasonry == MasonryStart \/ MasonryPlace \/ MasonryReturn

(***************************************************************************)
(* Treemap                                                                 *)
(***************************************************************************)
TreemapBegin(validImages) ==
  IF validImages = <<>>
  THEN /\ Returned(createEmptyOutput(input.images))
       /\ UNCHANGED <<rng, queue, placements, unusedImageIds>>
  ELSE /\ Shuffled(validImages, TreemapBias)
       /\ pc' = "treemap"
       /\ UNCHANGED output

TreemapStart ==
  /\ pc = "idle" /\ caller = "direct" /\ alg = "treemap"
  /\ TreemapBegin(filterValidImages(input.images, input.minImageSizeInches))
  /\ UNCHANGED <<input, alg, caller, settings, currentRow, freeRects, columns, bounds, edge,
                 startCount, scales, bestScale, bestCoverage, bestOutput, iterations, low,
                 high, searchIterations, result, history, evaluated, events, rendered, selected>>

Squarified(r) == placements' = r.placements /\ rng' = r.rng

TreemapSquarify ==
  /\ pc = "treemap" /\ queue # <<>>
  /\ Squarified(squarify(queue, TreemapScale(queue, input),
                         Rect(Zero, Zero, input.pageWidth, input.pageHeight),
                         input.gapInches, rng))
  /\ queue' = <<>>
  /\ UNCHANGED <<input, alg, caller, settings, pc, unusedImageIds, currentRow, freeRects,
                 columns, bounds, edge, startCount, output, scales, bestScale, bestCoverage,
                 bestOutput, iterations, low, high, searchIterations, result, history, evaluated,
                 events, rendered, selected>>

TreemapReturn ==
  /\ pc = "treemap" /\ queue = <<>>
  /\ unusedImageIds' = NotPlacedIds(input.images, placements)
  /\ Returned(Output(placements, unusedImageIds'))
  /\ UNCHANGED <<input, alg, caller, settings, rng, queue, placements, currentRow, freeRects,
                 columns, bounds, edge, startCount, scales, bestScale, bestCoverage,
                 bestOutput, iterations, low, high, searchIterations, result, history, evaluated,
                 events, rendered, selected>>

NextTreemap == TreemapStart \/ TreemapSquarify \/ TreemapReturn

(***************************************************************************)
(* Spiral: one edge per step, then the three post-processing passes        *)
(***************************************************************************)
\* the loop state st is what the variables hold
SpiralAt(st) ==
  /\ queue' = st.imageQueue
  /\ placements' = st.placements
  /\ bounds' = st.bounds
  /\ edge' = st.edge
  /\ startCount' = st.startCount
  /\ pc' = IF st.looping THEN "spiral" ELSE "tuck"

SpiralSorted(sorted) ==
  /\ rng' = sorted.rng
  /\ SpiralAt(SpiralFirst(sorted.images, input))

SpiralBegin(validImages) ==
  IF validImages = <<>>
  THEN /\ Returned(createEmptyOutput(input.images))
       /\ UNCHANGED <<rng, queue, placements, unusedImageIds, bounds, edge, startCount>>
  ELSE /\ SpiralSorted(biasedShuffleByArea(validImages, FreshGenerator, SpiralBias))
       /\ unusedImageIds' = <<>>
       /\ UNCHANGED output

SpiralStart ==
  /\ pc = "idle" /\ caller = "direct" /\ alg = "spiral"
  /\ SpiralBegin(filterValidImages(input.images, input.minImageSizeInches))
  /\ UNCHANGED <<input, alg, caller, settings, currentRow, freeRects, columns, scales,
                 bestScale, bestCoverage, bestOutput, iterations, low, high, searchIterations,
                 result, history, evaluated, events, rendered, selected>>

SpiralFillEdge ==
  /\ pc = "spiral"
  /\ SpiralAt(SpiralEdge([imageQueue |-> queue, placements |-> placements,
                          bounds |-> bounds, edge |-> edge, startCount |-> startCount,
                          looping |-> TRUE],
                         input.gapInches, input.minImageSizeInches))
  /\ UNCHANGED <<input, alg, caller, settings, rng, unusedImageIds, currentRow, freeRects,
                 columns, output, scales, bestScale, bestCoverage, bestOutput, iterations,
                 low, high, searchIterations, result, history, evaluated, events, rendered, selected>>

SpiralTuck ==
  /\ pc = "tuck"
  /\ unusedImageIds' = Ids(queue)
  /\ placements' = tuckPlacements(placements, input.gapInches, input.pageWidth,
                                  input.pageHeight)
  /\ pc' = "shift"
  /\ UNCHANGED <<input, alg, caller, settings, rng, queue, currentRow, freeRects, columns,
                 bounds, edge, startCount, output, scales, bestScale, bestCoverage,
                 bestOutput, iterations, low, high, searchIterations, result, history, evaluated,
                 events, rendered, selected>>

SpiralShift ==
  /\ pc = "shift"
  /\ placements' = shiftOutward(placements, input.gapInches, input.pageWidth,
                                input.pageHeight)
  /\ pc' = "expand"
  /\ UNCHANGED <<input, alg, caller, settings, rng, queue, unusedImageIds, currentRow,
                 freeRects, columns, bounds, edge, startCount, output, scales, bestScale,
                 bestCoverage, bestOutput, iterations, low, high, searchIterations, result,
                 history, evaluated, events, rendered, selected>>

SpiralExpand ==
  /\ pc = "expand"
  /\ placements' = expandToFillCenter(placements, input.gapInches, input.pageWidth,
                                      input.pageHeight)
  /\ Returned(Output(placements', unusedImageIds))
  /\ UNCHANGED <<input, alg, caller, settings, rng, queue, unusedImageIds, currentRow,
                 freeRects, columns, bounds, edge, startCount, scales, bestScale,
                 bestCoverage, bestOutput, iterations, low, high, searchIterations, result,
                 history, evaluated, events, rendered, selected>>

NextSpiral == SpiralStart \/ SpiralFillEdge \/ SpiralTuck \/ SpiralShift \/ SpiralExpand

(***************************************************************************)
(* Scale factor optimization                                               *)
(***************************************************************************)
TARGET_COVERAGE == Frac(92, 100)
COVERAGE_TOLERANCE == Frac(5, 100)
maxIterations == 8
coarseScales ==
  <<One, Frac(8, 10), Frac(6, 10), Frac(5, 10), Frac(4, 10), Frac(3, 10), Frac(2, 10),
    Frac(15, 100), Frac(1, 10)>>

\* the candidate list if the filter on minScale were left out
Unfiltered(ss, minScale) == ss

RECURSIVE AtLeast(_, _)
\* scales.filter(s => s >= minScale)
AtLeast(ss, minScale) ==
  IF ss = <<>> THEN <<>>
  ELSE (IF RGe(Head(ss), minScale) THEN <<Head(ss)>> ELSE <<>>) \o AtLeast(Tail(ss), minScale)

MinScale(s) == RSub(One, Frac(s.maxDownscalePercent, 100))

\* scale every image, then drop those below the minimum size
scaleImages(images, scale, minSize) == filterValidImages(ScaleBy(images, scale), minSize)

getAlgorithm(name, in) ==
  CASE name = "ffd-row" -> ffdRowAlgorithm(in)
    [] name = "masonry" -> masonryAlgorithm(in)
    [] name = "guillotine" -> guillotineAlgorithm(in)
    [] name = "spiral" -> spiralAlgorithm(in)
    [] name = "treemap" -> treemapAlgorithm(in)

\* the algorithm run on the scaled images with the other arguments of the call
RunOn(scaledImages) == getAlgorithm(alg, [input EXCEPT !.images = scaledImages])

\* output.coverage * (0.5 + 0.5 * placements.length / totalImageCount)
Score(out, totalImageCount) ==
  RMul(out.coverage, RAdd(Half, RMul(Half, Frac(Len(out.placements), totalImageCount))))

\* one run of the algorithm by the optimizer: the phase and the scale it ran at,
\* what it placed, its weighted score, the best scale kept after it, and
\* whether the call returned its output at once
Candidate(phase, scale, out, best, returned) ==
  [phase |-> phase, scale |-> scale, placed |-> Len(out.placements),
   score |-> Score(out, Len(input.images)), best |-> best, returned |-> returned]

OptStart ==
  /\ pc = "idle" /\ caller = "optimizer"
  /\ scales' = AtLeast(coarseScales, MinScale(settings))
  /\ bestScale' = One
  /\ bestCoverage' = Zero
  /\ bestOutput' = NULL
  /\ iterations' = 0
  /\ evaluated' = <<>>
  /\ pc' = "coarse"
  /\ UNCHANGED <<input, alg, caller, settings, rng, queue, placements, unusedImageIds,
                 currentRow, freeRects, columns, bounds, edge, startCount, output, low, high,
                 searchIterations, result, history, events, rendered, selected>>

\* the update of the best candidate if a tie replaced it: >= for both comparisons
CoarseKeepOnTie(scale, out, effectiveCoverage) ==
  IF \/ RGe(effectiveCoverage, bestCoverage)
     \/ Len(out.placements) >= (IF bestOutput = NULL THEN 0 ELSE Len(bestOutput.placements))
  THEN /\ bestCoverage' = effectiveCoverage
       /\ bestScale' = scale
       /\ bestOutput' = out
  ELSE UNCHANGED <<bestScale, bestCoverage, bestOutput>>

\* if (effectiveCoverage > bestCoverage || more images placed than bestOutput)
CoarseKeep(scale, out, effectiveCoverage) ==
  IF \/ RGt(effectiveCoverage, bestCoverage)
     \/ Len(out.placements) > (IF bestOutput = NULL THEN 0 ELSE Len(bestOutput.placements))
  THEN /\ bestCoverage' = effectiveCoverage
       /\ bestScale' = scale
       /\ bestOutput' = out
  ELSE UNCHANGED <<bestScale, bestCoverage, bestOutput>>

\* the loop body behind the run out of the algorithm
CoarseRun(scale, out) ==
  /\ iterations' = iterations + 1
  /\ CoarseKeep(scale, out, Score(out, Len(input.images)))
  /\ IF /\ RGe(out.coverage, RSub(TARGET_COVERAGE, COVERAGE_TOLERANCE))
        /\ RGe(Frac(Len(out.placements), Len(input.images)), Frac(66, 100))
     THEN /\ result' = [bestScale |-> scale, output |-> out, iterations |-> iterations']
          /\ pc' = "optimized"
     ELSE UNCHANGED <<result, pc>>
  /\ evaluated' = Append(evaluated,
                         Candidate("coarse", scale, out, bestScale', pc' = "optimized"))

CoarseWith(scale, scaledImages) ==
  IF scaledImages = <<>>
  THEN UNCHANGED <<bestScale, bestCoverage, bestOutput, iterations, result, pc, evaluated>>
  ELSE CoarseRun(scale, RunOn(scaledImages))

\* one pass of the coarse loop
OptCoarse ==
  /\ pc = "coarse" /\ scales # <<>>
  /\ CoarseWith(Head(scales),
                scaleImages(input.images, Head(scales), input.minImageSizeInches))
  /\ scales' = Tail(scales)
  /\ UNCHANGED <<input, alg, caller, settings, rng, queue, placements, unusedImageIds,
                 currentRow, freeRects, columns, bounds, edge, startCount, output, low, high,
                 searchIterations, history, events, rendered, selected>>

\* after the coarse loop: enter the binary search, or return the empty fallback
OptCoarseDone ==
  /\ pc = "coarse" /\ scales = <<>>
  /\ IF bestOutput # NULL
     THEN /\ low' = RMax(MinScale(settings), RSub(bestScale, Frac(15, 100)))
          /\ high' = RMin(One, RAdd(bestScale, Frac(15, 100)))
          /\ searchIterations' = 0
          /\ pc' = "fine"
          /\ UNCHANGED result
     ELSE /\ result' = [bestScale |-> bestScale,
                        output |-> createEmptyOutput(input.images),
                        iterations |-> iterations]
          /\ pc' = "optimized"
          /\ UNCHANGED <<low, high, searchIterations>>
  /\ UNCHANGED <<input, alg, caller, settings, rng, queue, placements, unusedImageIds,
                 currentRow, freeRects, columns, bounds, edge, startCount, output, scales,
                 bestScale, bestCoverage, bestOutput, iterations, history, evaluated,
                 events, rendered, selected>>

\* the loop condition if the test of the window were left out
SearchingByCount == searchIterations < maxIterations

Searching == searchIterations < maxIterations /\ RGt(RSub(high, low), Frac(2, 100))

\* the loop body of binarySearchScale behind the run out of the algorithm
FineRun(mid, out) ==
  /\ IF RGt(Score(out, Len(input.images)), Score(bestOutput, Len(input.images)))
     THEN bestOutput' = out /\ bestScale' = mid
     ELSE UNCHANGED <<bestOutput, bestScale>>
  /\ IF RLt(out.coverage, TARGET_COVERAGE)
     THEN high' = mid /\ UNCHANGED <<low, result, pc>>
     ELSE IF RGt(out.coverage, RAdd(TARGET_COVERAGE, COVERAGE_TOLERANCE))
     THEN low' = mid /\ UNCHANGED <<high, result, pc>>
     ELSE IF RGe(R(Len(out.placements)), RMul(R(Len(input.images)), Frac(66, 100)))
     THEN /\ result' = [bestScale |-> mid, output |-> out,
                        iterations |-> iterations + searchIterations']
          /\ pc' = "optimized"
          /\ UNCHANGED <<low, high>>
     ELSE high' = mid /\ UNCHANGED <<low, result, pc>>
  /\ evaluated' = Append(evaluated,
                         Candidate("fine", mid, out, bestScale', pc' = "optimized"))

FineWith(mid, scaledImages) ==
  IF scaledImages = <<>>
  THEN high' = mid /\ UNCHANGED <<low, bestOutput, bestScale, result, pc, evaluated>>
  ELSE FineRun(mid, RunOn(scaledImages))

FineAt(mid) ==
  /\ searchIterations' = searchIterations + 1
  /\ FineWith(mid, scaleImages(input.images, mid, input.minImageSizeInches))

\* one pass of the loop of binarySearchScale
OptFine ==
  /\ pc = "fine" /\ Searching
  /\ FineAt(RDiv(RAdd(low, high), R(2)))
  /\ UNCHANGED <<input, alg, caller, settings, rng, queue, placements, unusedImageIds,
                 currentRow, freeRects, columns, bounds, edge, startCount, output, scales,
                 bestCoverage, iterations, history, events, rendered, selected>>

OptFineDone ==
  /\ pc = "fine" /\ ~Searching
  /\ result' = [bestScale |-> bestScale, output |-> bestOutput,
                iterations |-> iterations + searchIterations]
  /\ pc' = "optimized"
  /\ UNCHANGED <<input, alg, caller, settings, rng, queue, placements, unusedImageIds,
                 currentRow, freeRects, columns, bounds, edge, startCount, output, scales,
                 bestScale, bestCoverage, bestOutput, iterations, low, high,
                 searchIterations, history, evaluated, events, rendered, selected>>

NextOpt == OptStart \/ OptCoarse \/ OptCoarseDone \/ OptFine \/ OptFineDone

(***************************************************************************)
(* The same call made again                                                *)
(***************************************************************************)
Returns == IF caller = "direct" THEN output ELSE result

\* the caller keeps what the call returned and calls again with the same
\* arguments; whatever the first call left behind is still there
Again ==
  /\ pc \in {"done", "optimized"}
  /\ Len(history) < MaxRuns - 1
  /\ history' = Append(history, Returns)
  /\ pc' = "idle"
  /\ UNCHANGED <<input, alg, caller, settings, rng, queue, placements, unusedImageIds,
                 currentRow, freeRects, columns, bounds, edge, startCount, output, scales,
                 bestScale, bestCoverage, bestOutput, iterations, low, high,
                 searchIterations, result, evaluated, events, rendered, selected>>

(***************************************************************************)
(* biasedShuffleByArea on its own: input holds the images, the seed of the *)
(* generator and the bias factor                                           *)
(***************************************************************************)
ShuffleSeeds == 0..7
ShuffleBiases == {Zero, Half, Frac(7, 10), One}
ShuffleArguments ==
  [images : ImageLists(SmallDims), seed : ShuffleSeeds, biasFactor : ShuffleBiases]

ShuffleCall ==
  /\ pc = "unshuffled"
  /\ Sorted(biasedShuffleByArea(input.images, SeededRandom(input.seed), input.biasFactor))
  /\ pc' = "shuffled"
  /\ UNCHANGED <<input, alg, caller, settings, currentRow, freeRects, columns, bounds, edge,
                 startCount, output, scales, bestScale, bestCoverage, bestOutput, iterations,
                 low, high, searchIterations, result, history, evaluated, events, rendered,
                 selected>>

(***************************************************************************)
(* createCollageCanvas                                                     *)
(***************************************************************************)
CollageProgress(step, total) == [step |-> step, total |-> total]
reportProgress(step, total) == events' = Append(events, CollageProgress(step, total))

\* up to the call of optimizeScaleFactor
CanvasCall ==
  /\ pc = "called"
  /\ reportProgress(0, Len(input.images) + 1)
  /\ pc' = "idle"
  /\ UNCHANGED <<input, alg, caller, settings, rng, queue, placements, unusedImageIds,
                 currentRow, freeRects, columns, bounds, edge, startCount, output, scales,
                 bestScale, bestCoverage, bestOutput, iterations, low, high,
                 searchIterations, result, history, evaluated, rendered, selected>>

\* from the return of optimizeScaleFactor to the rendering loop: the layout, the
\* selected flags and the canvas, whose getContext('2d') may return null
CanvasLayout ==
  /\ pc = "optimized" /\ events # <<>>
  /\ selected' = {result.output.placements[k].imageId :
                    k \in 1..Len(result.output.placements)}
  /\ \E ctx \in {"2d", "null"} : pc' = IF ctx = "null" THEN "thrown" ELSE "rendering"
  /\ rendered' = 0
  /\ UNCHANGED <<input, alg, caller, settings, rng, queue, placements, unusedImageIds,
                 currentRow, freeRects, columns, bounds, edge, startCount, output, scales,
                 bestScale, bestCoverage, bestOutput, iterations, low, high,
                 searchIterations, result, history, evaluated, events>>

\* one pass of the rendering loop; the image of a placement is always in the
\* pool, so the loop never continues without reporting; renderPlacedImage may
\* reject (loadImage, pica.resize), which ends the call
CanvasRender ==
  /\ pc = "rendering" /\ rendered < Len(result.output.placements)
  /\ reportProgress(rendered + 1, Len(result.output.placements) + 1)
  /\ \E drawn \in BOOLEAN :
       IF drawn THEN rendered' = rendered + 1 /\ pc' = "rendering"
       ELSE pc' = "thrown" /\ UNCHANGED rendered
  /\ UNCHANGED <<input, alg, caller, settings, rng, queue, placements, unusedImageIds,
                 currentRow, freeRects, columns, bounds, edge, startCount, output, scales,
                 bestScale, bestCoverage, bestOutput, iterations, low, high,
                 searchIterations, result, history, evaluated, selected>>

\* the return without the last report
CanvasCompleteSilent ==
  /\ pc = "rendering" /\ rendered = Len(result.output.placements)
  /\ pc' = "returned"
  /\ UNCHANGED <<input, alg, caller, settings, rng, queue, placements, unusedImageIds,
                 currentRow, freeRects, columns, bounds, edge, startCount, output, scales,
                 bestScale, bestCoverage, bestOutput, iterations, low, high,
                 searchIterations, result, history, evaluated, events, rendered, selected>>

\* after the loop
CanvasComplete ==
  /\ pc = "rendering" /\ rendered = Len(result.output.placements)
  /\ reportProgress(Len(result.output.placements) + 1, Len(result.output.placements) + 1)
  /\ pc' = "returned"
  /\ UNCHANGED <<input, alg, caller, settings, rng, queue, placements, unusedImageIds,
                 currentRow, freeRects, columns, bounds, edge, startCount, output, scales,
                 bestScale, bestCoverage, bestOutput, iterations, low, high,
                 searchIterations, result, history, evaluated, rendered, selected>>

NextCanvas == CanvasCall \/ NextOpt \/ CanvasLayout \/ CanvasRender \/ CanvasComplete

(***************************************************************************)
(* Specifications                                                          *)
(***************************************************************************)
Next == NextFfd \/ NextGuillotine \/ NextMasonry \/ NextTreemap \/ NextSpiral
        \/ NextOpt \/ Again
Spec == Init /\ [][Next]_vars

InitFfd == Direct(Inputs(Dims, Seeds), {"ffd-row"})
SpecFfd == InitFfd /\ [][NextFfd]_vars

InitGuillotine == Direct(Inputs(Dims, Seeds), {"guillotine"})
SpecGuillotine == InitGuillotine /\ [][NextGuillotine]_vars

InitSpiral == Direct(Inputs(Dims, Seeds), {"spiral"})
SpecSpiral == InitSpiral /\ [][NextSpiral]_vars

InitMasonryTreemap == Direct(Inputs(Dims, Seeds), {"masonry", "treemap"})
NextMasonryTreemap == NextMasonry \/ NextTreemap
SpecMasonryTreemap == InitMasonryTreemap /\ [][NextMasonryTreemap]_vars

InitPacked == Direct(Inputs(Dims, Seeds), {"guillotine", "masonry", "treemap"})
NextPacked == NextGuillotine \/ NextMasonry \/ NextTreemap
SpecPacked == InitPacked /\ [][NextPacked]_vars

InitTreemap == Direct(InputsOf(ListsOf(SmallDims, ManyImages), Seeds), {"treemap"})
SpecTreemap == InitTreemap /\ [][NextTreemap]_vars

\* tuckPlacements and shiftOutward on their own: PlacedImage lists of up to
\* PassImages square images with sides in SmallDims at whole-inch positions of a
\* page of PassPage x PassPage inches
PassRects(page) ==
  {r \in {Rect(R(x), R(y), R(w), R(w)) : x \in 0..(page - 1), y \in 0..(page - 1),
                                         w \in SmallDims} :
     RLe(Right(r), R(page)) /\ RLe(Bottom(r), R(page))}
PlacedLists(page, most) ==
  UNION {{[i \in 1..n |-> Placement(i, f[i].x, f[i].y, f[i].width, f[i].height, One)] :
            f \in [1..n -> PassRects(page)]} : n \in 1..most}
ImagesOf(placed) ==
  [i \in 1..Len(placed) |-> [id |-> placed[i].imageId, width |-> placed[i].rect.width,
                             height |-> placed[i].rect.height]]
\* the precondition of the two passes
Apart(placed, gap, pageWidth, pageHeight) ==
  /\ \A i \in 1..Len(placed) : /\ RLe(Right(placed[i].rect), pageWidth)
                                /\ RLe(Bottom(placed[i].rect), pageHeight)
  /\ \A i, j \in 1..Len(placed) :
       i # j => ~rectsIntersect(placed[i].rect, placed[j].rect, gap)
InitPasses ==
  /\ placements \in PlacedLists(PassPage, PassImages)
  /\ input \in [images : {ImagesOf(placements)}, pageWidth : {R(PassPage)},
                pageHeight : {R(PassPage)}, gapInches : {R(g) : g \in Gaps},
                minImageSizeInches : {One}, seed : {0}]
  /\ Apart(placements, input.gapInches, input.pageWidth, input.pageHeight)
  /\ alg = "spiral"
  /\ caller = "direct"
  /\ settings \in Settings({0})
  /\ pc \in {"tuck", "shift"}
  /\ rng = SeededRandom(input.seed)
  /\ queue = <<>>
  /\ unusedImageIds = <<>>
  /\ currentRow = FirstRow /\ freeRects = <<>> /\ columns = <<>>
  /\ bounds = NoBounds /\ edge = "top" /\ startCount = 0
  /\ output = NULL /\ scales = <<>> /\ bestScale = One /\ bestCoverage = Zero
  /\ bestOutput = NULL /\ iterations = 0 /\ low = Zero /\ high = Zero
  /\ searchIterations = 0 /\ result = NULL /\ history = <<>> /\ evaluated = <<>>
  /\ events = <<>> /\ rendered = 0 /\ selected = {}
NextPasses == SpiralTuck \/ SpiralShift
SpecPasses == InitPasses /\ [][NextPasses]_vars

InitCanvas == Canvas(Inputs(SmallDims, PoolSeeds), Algorithms, {50})
SpecCanvas == InitCanvas /\ [][NextCanvas]_vars

InitShuffle ==
  /\ input \in ShuffleArguments
  /\ alg = "biasedShuffleByArea"
  /\ caller = "direct"
  /\ settings \in Settings({0})
  /\ pc = "unshuffled"
  /\ Blank
SpecShuffle == InitShuffle /\ [][ShuffleCall]_vars

InitOpt == Optimizer(Inputs(SmallDims, PoolSeeds), Algorithms, DownscalePercents)
SpecOpt == InitOpt /\ [][NextOpt]_vars

(***************************************************************************)
(* Properties of an output                                                 *)
(***************************************************************************)
NoOverlap(out, gap) ==
  \A i, j \in 1..Len(out.placements) :
    i # j => ~rectsIntersect(out.placements[i].rect, out.placements[j].rect, gap)

InPage(rect, pageWidth, pageHeight) ==
  /\ RLe(Zero, rect.x)
  /\ RLe(Zero, rect.y)
  /\ RLe(RAdd(rect.x, rect.width), pageWidth)
  /\ RLe(RAdd(rect.y, rect.height), pageHeight)

AllInPage(out, in) ==
  \A i \in 1..Len(out.placements) :
    InPage(out.placements[i].rect, in.pageWidth, in.pageHeight)

IsPlaced(out, id) == \E k \in 1..Len(out.placements) : out.placements[k].imageId = id
IsUnused(out, id) == \E k \in 1..Len(out.unusedImageIds) : out.unusedImageIds[k] = id

\* how often an id occurs across placements and unusedImageIds
Occurrences(out, id) ==
  Cardinality({k \in 1..Len(out.placements) : out.placements[k].imageId = id})
  + Cardinality({k \in 1..Len(out.unusedImageIds) : out.unusedImageIds[k] = id})

Partition(out, images) ==
  /\ Len(out.placements) + Len(out.unusedImageIds) = Len(images)
  /\ \A i \in 1..Len(images) : Occurrences(out, images[i].id) = 1

\* every pool image is placed or unused, and none is both
Accounted(out, images) ==
  \A i \in 1..Len(images) : IsPlaced(out, images[i].id) # IsUnused(out, images[i].id)

\* an algorithm called directly has returned
Finished == pc = "done" /\ caller = "direct"
Done(a) == Finished /\ alg = a

(***************************************************************************)
(* Claims                                                                  *)
(***************************************************************************)

\* C1: no two distinct placements of an FFD-row output intersect under the gap
\* tolerance, in the first row and in every later row
C1_FfdNoOverlap == Done("ffd-row") => NoOverlap(output, input.gapInches)

\* C2: no two distinct placements of a guillotine output intersect under the gap
\* tolerance
C2_GuillotineNoOverlap == Done("guillotine") => NoOverlap(output, input.gapInches)

\* C3: no two distinct placements of a spiral output intersect under the gap
\* tolerance, after the edges are filled and scaled and the three passes have run
C3_SpiralNoOverlap == Done("spiral") => NoOverlap(output, input.gapInches)

\* C4: every placement of an FFD-row output lies inside the page
C4_FfdInPage == Done("ffd-row") => AllInPage(output, input)

\* C5: every placement of a spiral output lies inside the page
C5_SpiralInPage == Done("spiral") => AllInPage(output, input)

\* C6: the output of each of the five algorithms partitions the input images:
\* placements and unusedImageIds together hold every input id exactly once
C6_Partition == Finished => Partition(output, input.images)

\* C7: in the result of optimizeScaleFactor every pool image that is not placed is
\* in unusedImageIds, and no image is both placed and unused
C7_PoolAccounted == pc = "optimized" => Accounted(result.output, input.images)

\* C8: the coverage an algorithm returns lies between 0 and 1
C8_CoverageBound ==
  Finished => RLe(Zero, output.coverage) /\ RLe(output.coverage, One)

\* C9: a call returns what every earlier call with the same arguments returned,
\* whatever state the earlier calls have left behind
C9_SameReturn ==
  pc \in {"done", "optimized"} => \A k \in 1..Len(history) : history[k] = Returns

\* a second call of an algorithm has returned a layout of several images, and the
\* generator state of the runs is not the state a fresh generator starts in
C9_SecondRunReturned ==
  /\ Finished
  /\ Len(history) = 1
  /\ Len(output.placements) >= 2
  /\ rng # SeededRandom(input.seed)

\* C10: no two distinct placements of a masonry output or of a treemap output
\* intersect under the gap tolerance
C10_MasonryTreemapNoOverlap ==
  (Done("masonry") \/ Done("treemap")) => NoOverlap(output, input.gapInches)

\* a masonry output with a positive gap that has two images stacked in one
\* column and two images in different columns
C10_StackedAndAdjacent ==
  /\ Done("masonry")
  /\ RGt(input.gapInches, Zero)
  /\ \E i, j \in 1..Len(output.placements) :
       /\ i # j
       /\ output.placements[i].rect.x = output.placements[j].rect.x
  /\ \E i, j \in 1..Len(output.placements) :
       output.placements[i].rect.x # output.placements[j].rect.x

\* C11: every placement of a guillotine, masonry or treemap output lies inside
\* the page
C11_PackedInPage ==
  (Done("guillotine") \/ Done("masonry") \/ Done("treemap")) => AllInPage(output, input)

\* a masonry output with a positive gap that has an image in a column right of
\* the first one, ending at the right page edge
C11_LastColumnFilled ==
  /\ Done("masonry")
  /\ RGt(input.gapInches, Zero)
  /\ \E i \in 1..Len(output.placements) :
       /\ RGt(output.placements[i].rect.x, Zero)
       /\ RAdd(output.placements[i].rect.x, output.placements[i].rect.width)
            = input.pageWidth

\* C12: when no input image passes the minimum-size filter, each of the five
\* algorithms returns no placement, coverage 0 and the ids of all input images
\* as unusedImageIds
C12_EmptyOutput ==
  (Finished /\ filterValidImages(input.images, input.minImageSizeInches) = <<>>)
    => output = createEmptyOutput(input.images)

\* an input image wider than the page or taller than the page
TooLarge(img, in) == RGt(img.width, in.pageWidth) \/ RGt(img.height, in.pageHeight)

\* C13: in an FFD-row, guillotine or spiral output an input image that is wider or
\* taller than the page is not placed and its id is in unusedImageIds
C13_TooLargeUnused ==
  (Done("ffd-row") \/ Done("guillotine") \/ Done("spiral"))
    => \A k \in 1..Len(input.images) :
         TooLarge(input.images[k], input)
           => /\ ~IsPlaced(output, input.images[k].id)
              /\ IsUnused(output, input.images[k].id)

\* the input image a placement refers to
InputImage(in, id) == in.images[CHOOSE k \in 1..Len(in.images) : in.images[k].id = id]

NotEnlarged(p, img) ==
  /\ RGt(p.scaleFactor, Zero)
  /\ RLe(p.scaleFactor, One)
  /\ RLe(p.rect.width, img.width)
  /\ RLe(p.rect.height, img.height)

\* C14: every placement of an FFD-row, masonry, guillotine or spiral output has a
\* scaleFactor in (0, 1] and a rect no wider and no taller than its input image
C14_NotEnlarged ==
  (Done("ffd-row") \/ Done("masonry") \/ Done("guillotine") \/ Done("spiral"))
    => \A i \in 1..Len(output.placements) :
         NotEnlarged(output.placements[i], InputImage(input, output.placements[i].imageId))

ScaledFromInput(p, img) ==
  /\ p.rect.width = RMul(img.width, p.scaleFactor)
  /\ p.rect.height = RMul(img.height, p.scaleFactor)

\* C15: in every placement of any of the five algorithms the rect is the input
\* image multiplied by scaleFactor, in width and in height
C15_ScaledFromInput ==
  Finished
    => \A i \in 1..Len(output.placements) :
         ScaledFromInput(output.placements[i],
                         InputImage(input, output.placements[i].imageId))

\* C16: no placement of any of the five algorithms is narrower or lower than
\* minImageSizeInches
C16_MinimumSize ==
  Finished
    => \A i \in 1..Len(output.placements) :
         /\ RGe(output.placements[i].rect.width, input.minImageSizeInches)
         /\ RGe(output.placements[i].rect.height, input.minImageSizeInches)

\* C17: every placement of any algorithm has a positive width and a positive
\* height, whatever the gap is
C17_PositiveSize ==
  Finished
    => \A i \in 1..Len(output.placements) :
         /\ RGt(output.placements[i].rect.width, Zero)
         /\ RGt(output.placements[i].rect.height, Zero)

\* no run of the algorithm in the coarse phase has placed an image
NothingPlaced ==
  \A k \in 1..Len(evaluated) : evaluated[k].phase = "coarse" => evaluated[k].placed = 0

\* C18: when the algorithm places no image at any coarse scale, optimizeScaleFactor
\* returns bestScale 1 with the empty output that marks every pool image unused,
\* and the binary search of phase 2 has not run
C18_EmptyFallback ==
  (pc = "optimized" /\ NothingPlaced)
    => /\ result.bestScale = One
       /\ result.output = createEmptyOutput(input.images)
       /\ \A k \in 1..Len(evaluated) : evaluated[k].phase = "coarse"
       /\ searchIterations = 0
       /\ high = Zero

\* the optimizer has returned after the algorithm ran on a non-empty scaled list
\* and placed nothing
C18_RanAndPlacedNothing ==
  /\ pc = "optimized"
  /\ evaluated # <<>>
  /\ NothingPlaced

InScaleRange(scale) == RLe(MinScale(settings), scale) /\ RLe(scale, One)

\* the best scale kept when the coarse phase ended
BestCoarseScale ==
  evaluated[Cardinality({k \in 1..Len(evaluated) : evaluated[k].phase = "coarse"})].best

NearBestCoarse(scale) ==
  /\ RLe(RSub(BestCoarseScale, Frac(15, 100)), scale)
  /\ RLe(scale, RAdd(BestCoarseScale, Frac(15, 100)))

\* C19: every scale the optimizer runs the algorithm at lies in [minScale, 1],
\* the binary search stays within 0.15 of the best coarse scale (its bounds, and
\* so every midpoint, run or skipped), and the returned bestScale lies in
\* [minScale, 1]
C19_ScalesInRange ==
  /\ \A k \in 1..Len(evaluated) :
       /\ InScaleRange(evaluated[k].scale)
       /\ evaluated[k].phase = "fine" => NearBestCoarse(evaluated[k].scale)
  /\ pc = "fine" =>
       /\ InScaleRange(low) /\ InScaleRange(high) /\ RLe(low, high)
       /\ NearBestCoarse(low) /\ NearBestCoarse(high)
  /\ pc = "optimized" => InScaleRange(result.bestScale)

\* the optimizer has returned after a binary search that ran the algorithm
\* around a best coarse scale below 1
C19_SearchedBelowOne ==
  /\ pc = "optimized"
  /\ \E k \in 1..Len(evaluated) : evaluated[k].phase = "fine"
  /\ BestCoarseScale # One

\* C20: unless the call returned through the short-circuit on the target coverage,
\* the weighted score of the returned output is at least the weighted score of
\* every candidate the call evaluated in phase 1 and in phase 2
C20_BestScoreReturned ==
  (pc = "optimized" /\ \A k \in 1..Len(evaluated) : ~evaluated[k].returned)
    => \A k \in 1..Len(evaluated) :
         RGe(Score(result.output, Len(input.images)), evaluated[k].score)

\* the call returned the output of a run at once, in the coarse scan or in the
\* binary search
ShortCircuited == \E k \in 1..Len(evaluated) : evaluated[k].returned

\* C21: an output returned through a short-circuit has a coverage between 0.87
\* and 0.97 and places at least two thirds of the images
C21_ShortCircuitOnTarget ==
  (pc = "optimized" /\ ShortCircuited)
    => /\ RLe(Frac(87, 100), result.output.coverage)
       /\ RLe(result.output.coverage, Frac(97, 100))
       /\ 3 * Len(result.output.placements) >= 2 * Len(input.images)

CoarseRuns == Cardinality({k \in 1..Len(evaluated) : evaluated[k].phase = "coarse"})

IterationsBounded ==
  /\ CoarseRuns <= 9
  /\ iterations <= 9
  /\ searchIterations <= 8
  /\ pc = "optimized" => result.iterations <= 17

\* an iteration of the binary search runs only while the window is wider than
\* 0.02, and halves the window unless it returns
WindowHalved ==
  OptFine => /\ RGt(RSub(high, low), Frac(2, 100))
             /\ pc' = "fine" => RSub(high', low') = RDiv(RSub(high, low), R(2))

\* the steps the call can still take, at most
StepsLeft ==
  CASE pc = "idle" -> 11 + Len(coarseScales)
    [] pc = "coarse" -> 10 + Len(scales)
    [] pc = "fine" -> 1 + maxIterations - searchIterations
    [] pc = "optimized" -> 0

\* C22: optimizeScaleFactor terminates, since every step of the call lowers
\* StepsLeft, a natural number; the coarse scan runs the algorithm at most 9
\* times, the binary search makes at most 8 iterations, none of them with a
\* window of 0.02 or less, each halving the window, and the reported iterations
\* are at most 17
C22_Terminates ==
  /\ [](IterationsBounded /\ StepsLeft >= 0)
  /\ [][WindowHalved]_vars
  /\ [][StepsLeft' < StepsLeft]_vars

\* the call has returned after a binary search of four iterations
C22_SearchedFourTimes == pc = "optimized" /\ searchIterations = 4

\* the placements of an output that lie in the row at y
RowAt(out, y) == {k \in 1..Len(out.placements) : out.placements[k].rect.y = y}

\* the maximum height over the images placed in the row at y
RowHeight(out, y) ==
  CHOOSE h \in {out.placements[k].rect.height : k \in RowAt(out, y)} :
    \A k \in RowAt(out, y) : RLe(out.placements[k].rect.height, h)

\* q is placed flush after p in the row of p
FlushAfter(p, q, gap) ==
  /\ q.rect.y = p.rect.y
  /\ q.rect.x = RAdd(p.rect.x, RAdd(p.rect.width, gap))

\* q starts the row below the row of p
StartsRowBelow(out, p, q, gap) ==
  /\ q.rect.x = Zero
  /\ q.rect.y = RAdd(RAdd(p.rect.y, RowHeight(out, p.rect.y)), gap)

\* C23: in an FFD-row output the first image is at x = 0, and every later
\* image is either flush after the image placed before it (x = its x + width +
\* gap, same y) or starts a new row at x = 0 and y = the previous row's y + the
\* maximum height of the images of that row + gap
C23_RowLayout ==
  Done("ffd-row") =>
    /\ output.placements # <<>> => output.placements[1].rect.x = Zero
    /\ \A k \in 1..(Len(output.placements) - 1) :
         \/ FlushAfter(output.placements[k], output.placements[k + 1], input.gapInches)
         \/ StartsRowBelow(output, output.placements[k], output.placements[k + 1],
                           input.gapInches)

\* a and b are adjacent and share a full edge, b below or to the right of a
SharesEdge(a, b) == MergesBelow(a, b) \/ MergesRight(a, b)

\* C24: after every guillotine placement the free-rectangle list holds no two
\* rectangles that are adjacent and share a full edge, in whichever order they
\* stand in the list, and no rectangle narrower or lower than the 0.1 fragment
\* threshold
C24_FreeRectsMerged ==
  (alg = "guillotine" /\ caller = "direct" /\ placements # <<>>) =>
    /\ \A i, j \in 1..Len(freeRects) :
         i # j => ~SharesEdge(freeRects[i], freeRects[j])
    /\ \A i \in 1..Len(freeRects) :
         /\ RGe(freeRects[i].width, minFragment)
         /\ RGe(freeRects[i].height, minFragment)

\* the cuts squarify makes on the shuffled images
CutsOn(sorted, in) ==
  squarify(sorted.images, TreemapScale(sorted.images, in),
           Rect(Zero, Zero, in.pageWidth, in.pageHeight), in.gapInches, sorted.rng).splits
\* the cuts of the treemap call that has returned
Cuts ==
  CutsOn(biasedShuffleByArea(filterValidImages(input.images, input.minImageSizeInches),
                             SeededRandom(input.seed), TreemapBias), input)

\* how often an image is placed
TimesPlaced(out, id) ==
  Cardinality({k \in 1..Len(out.placements) : out.placements[k].imageId = id})

\* C25: every cut of the treemap, its random shift included, leaves both groups
\* non-empty; the output places every input image of at least the minimum size
\* exactly once, and unusedImageIds holds exactly the ids of the images the
\* minimum-size filter dropped
C25_EveryValidImagePlaced ==
  /\ (Done("treemap") /\ output.placements # <<>>) =>
       \A k \in 1..Len(Cuts) :
         Cuts[k].bestSplit >= 1 /\ Cuts[k].bestSplit <= Cuts[k].length - 1
  /\ Done("treemap") =>
       \A i \in 1..Len(input.images) :
         IF RGe(input.images[i].width, input.minImageSizeInches)
            /\ RGe(input.images[i].height, input.minImageSizeInches)
         THEN TimesPlaced(output, input.images[i].id) = 1
              /\ ~IsUnused(output, input.images[i].id)
         ELSE TimesPlaced(output, input.images[i].id) = 0
              /\ Occurrences(output, input.images[i].id) = 1

\* a treemap call has placed four images after a cut at a randomly shifted
\* split index
C25_ShiftedSplit ==
  /\ Done("treemap") /\ Len(output.placements) = ManyImages
  /\ \E k \in 1..Len(Cuts) : Cuts[k].shifted

RECURSIVE TuckedTo(_, _, _, _, _)
\* the list after tuckPlacements has handled its first k placements
TuckedTo(placed, k, gap, pageWidth, pageHeight) ==
  IF k = 0 THEN placed
  ELSE TuckOne(TuckedTo(placed, k - 1, gap, pageWidth, pageHeight), k, gap,
               pageWidth, pageHeight)

RECURSIVE ShiftedTo(_, _, _, _, _)
\* the list after shiftOutward has handled its first k placements
ShiftedTo(placed, k, gap, pageWidth, pageHeight) ==
  IF k = 0 THEN placed
  ELSE ShiftOne(ShiftedTo(placed, k - 1, gap, pageWidth, pageHeight), k, gap,
                pageWidth, pageHeight)

\* the list of the running pass after its first k placements
PassedTo(k) ==
  IF pc = "tuck"
  THEN TuckedTo(placements, k, input.gapInches, input.pageWidth, input.pageHeight)
  ELSE ShiftedTo(placements, k, input.gapInches, input.pageWidth, input.pageHeight)

\* only x or only y of the rect changed
OneCoordinate(a, b) ==
  /\ a.width = b.width /\ a.height = b.height
  /\ (a.x = b.x) # (a.y = b.y)

\* the moved rect b lies at the page edge it was moved toward
AtEdge(a, b, pageWidth, pageHeight) ==
  \/ RLt(b.y, a.y) /\ b.y = Zero
  \/ RGt(b.y, a.y) /\ Bottom(b) = pageHeight
  \/ RLt(b.x, a.x) /\ b.x = Zero
  \/ RGt(b.x, a.x) /\ Right(b) = pageWidth

\* the moved rect b lies exactly gap short of other, which overlaps it on the
\* perpendicular axis under the gap tolerance, in the direction it was moved
GapShortOf(a, b, other, gap) ==
  \/ RLt(b.y, a.y) /\ b.y = RAdd(Bottom(other), gap) /\ horizOverlap(b, other, gap)
  \/ RGt(b.y, a.y) /\ RAdd(Bottom(b), gap) = other.y /\ horizOverlap(b, other, gap)
  \/ RLt(b.x, a.x) /\ b.x = RAdd(Right(other), gap) /\ vertOverlap(b, other, gap)
  \/ RGt(b.x, a.x) /\ RAdd(Right(b), gap) = other.x /\ vertOverlap(b, other, gap)

\* the rect that went from a to b is at its page edge or gap short of a placement
\* of the list others, other than placement i itself
Stopped(a, b, others, i, gap, pageWidth, pageHeight) ==
  \/ AtEdge(a, b, pageWidth, pageHeight)
  \/ \E j \in 1..Len(others) : j # i /\ GapShortOf(a, b, others[j].rect, gap)

\* the placements are apart under the gap tolerance and in the page
ApartInPage(placed, gap, pageWidth, pageHeight) ==
  /\ Apart(placed, gap, pageWidth, pageHeight)
  /\ \A i \in 1..Len(placed) : RLe(Zero, placed[i].rect.x) /\ RLe(Zero, placed[i].rect.y)

\* a step of one of the two passes on placements that are apart and in the page
PassOnApart ==
  /\ SpiralTuck \/ SpiralShift
  /\ ApartInPage(placements, input.gapInches, input.pageWidth, input.pageHeight)

\* C26: given placements that are pairwise apart under the gap tolerance and in
\* the page, tuckPlacements and shiftOutward return placements that are pairwise
\* apart and in the page; every rect they moved changed one coordinate only, and
\* when it was moved it came to lie at the page edge or exactly gap away from a
\* placement, as the list then stood, that overlaps it on the perpendicular axis
C26_PassesKeepApart ==
  [][PassOnApart =>
       /\ ApartInPage(placements', input.gapInches, input.pageWidth, input.pageHeight)
       /\ placements' = PassedTo(Len(placements))
       /\ \A k \in 1..Len(placements) :
            PassedTo(k)[k].rect # placements[k].rect =>
              /\ placements'[k] = PassedTo(k)[k]
              /\ OneCoordinate(placements[k].rect, placements'[k].rect)
              /\ Stopped(placements[k].rect, placements'[k].rect, PassedTo(k), k,
                         input.gapInches, input.pageWidth, input.pageHeight)]_vars

\* C26 as stated: every rect the pass moved lies, in the returned placements, at
\* the page edge or exactly gap away from a returned placement that overlaps it
C26_MovedRectsEndBlocked ==
  [][PassOnApart =>
       \A k \in 1..Len(placements) :
         placements'[k].rect # placements[k].rect =>
           /\ OneCoordinate(placements[k].rect, placements'[k].rect)
           /\ Stopped(placements[k].rect, placements'[k].rect, placements', k,
                      input.gapInches, input.pageWidth, input.pageHeight)]_vars

\* on placements that are apart and in the page, a pass moves a rect to gap short
\* of a later placement, and then moves that placement
C26_BlockerMovedLater ==
  /\ pc \in {"tuck", "shift"}
  /\ ApartInPage(placements, input.gapInches, input.pageWidth, input.pageHeight)
  /\ \E k \in 1..Len(placements) :
       /\ PassedTo(k)[k].rect # placements[k].rect
       /\ ~AtEdge(placements[k].rect, PassedTo(k)[k].rect, input.pageWidth,
                  input.pageHeight)
       /\ \E j \in (k + 1)..Len(placements) : PassedTo(j)[j].rect # placements[j].rect

\* optimizeScaleFactor is about to be called, is running or has just returned
InOptimizer == pc \in {"idle", "coarse", "fine", "optimized"}

LastEvent == events[Len(events)]

\* the steps of successive events never decrease and no step exceeds its total
EventsInOrder ==
  /\ \A k \in 1..(Len(events) - 1) : events[k].step <= events[k + 1].step
  /\ \A k \in 1..Len(events) : events[k].step <= events[k].total

\* one event, of step 0, is reported before optimizeScaleFactor is called, and
\* none while it runs
OneEventBefore == InOptimizer => Len(events) = 1 /\ events[1].step = 0
NoneDuring == NextOpt => UNCHANGED events

RECURSIVE ShuffledTo(_, _, _, _)
ShuffleStepOn(r, i, biasFactor) == ShuffleStep(r.images, r.rng, i, biasFactor)
\* [images, rng] after the first k passes of the loop of biasedShuffleByArea
ShuffledTo(images, state, k, biasFactor) ==
  IF k = 0 THEN [images |-> SortByAreaDesc(images), rng |-> state]
  ELSE ShuffleStepOn(ShuffledTo(images, state, k - 1, biasFactor), k - 1, biasFactor)

\* the list after the first k passes of the call
PassesTo(k) == ShuffledTo(input.images, SeededRandom(input.seed), k, input.biasFactor).images

\* every element of the list a occurs exactly once in b, and b is no longer
PermutationOf(a, b) ==
  /\ Len(a) = Len(b)
  /\ \A i \in 1..Len(a) : Cardinality({k \in 1..Len(b) : b[k] = a[i]}) = 1

\* pass i (0-based) leaves the list alone or exchanges position i with a position
\* in i .. n - 1 at most maxSwapDistance ahead
SwapInRange(before, after, i, n, biasFactor) ==
  \/ after = before
  \/ \E target \in i..(n - 1) :
       /\ target - i <= maxSwapDistance(i, n, biasFactor)
       /\ after = Swap(before, i + 1, target + 1)

\* C28: biasedShuffleByArea returns a permutation of its input for every list
\* length, seed and biasFactor in [0, 1], leaves the input unchanged, and every
\* swap it makes exchanges position i with a position in [i, length - 1] at most
\* max(1, floor((length - i) * (1 - biasFactor))) places ahead
C28_ShuffleIsPermutation ==
  /\ [](pc = "shuffled" =>
          /\ PermutationOf(input.images, queue)
          /\ queue = PassesTo(Len(input.images))
          /\ \A i \in 0..(Len(input.images) - 1) :
               SwapInRange(PassesTo(i), PassesTo(i + 1), i, Len(input.images),
                           input.biasFactor))
  /\ [][ShuffleCall => input' = input]_vars

\* a call has exchanged a position with the position two places ahead
C28_SwappedTwoAhead ==
  /\ pc = "shuffled"
  /\ \E i \in 0..(Len(queue) - 3) : PassesTo(i + 1) = Swap(PassesTo(i), i + 1, i + 3)

\* the step of expandToFillCenter finds every scaleFactor at 1 or above and
\* changes no placement
ExpandChangesNothing ==
  SpiralExpand =>
    /\ \A k \in 1..Len(placements) : RGe(placements[k].scaleFactor, One)
    /\ placements' = placements
    /\ output'.placements = placements

RECURSIVE Without(_, _)
\* the images of the sequence whose ids are not among the rejected ones
Without(images, rejected) ==
  IF images = <<>> THEN <<>>
  ELSE (IF \E k \in 1..Len(rejected) : rejected[k] = Head(images).id
        THEN <<>> ELSE <<Head(images)>>) \o Without(Tail(images), rejected)

\* the ordered sequence ffdRowAlgorithm places
FfdOrder ==
  biasedShuffleByArea(filterValidImages(input.images, input.minImageSizeInches),
                      SeededRandom(input.seed), FfdBias).images

\* a call of tryPlaceImage that returns null leaves the caller's row as it was
RejectionKeepsRow ==
  (FfdPlace /\ unusedImageIds' # unusedImageIds) => currentRow' = currentRow

\* C30: in FFD-row a call of tryPlaceImage that returns null leaves the current
\* row (y, currentX, height) unchanged, so the placements of the output are those
\* of the ordered sequence with the rejected images left out
C30_RejectionKeepsRow ==
  /\ [][RejectionKeepsRow]_vars
  /\ [](Done("ffd-row") =>
          output.placements
            = FfdLoop(Without(FfdOrder, output.unusedImageIds), FirstRow, NothingYet,
                      input).placements)
====
